---- MODULE Spec2Model ----
(***************************************************************************)
(* SnapHLS (src/main.py): the HLS materialization worker                   *)
(* (FtpDownloadWorker), its manifest functions, the cache eviction worker  *)
(* (CacheCleanupWorker) and the part of MainWindow that starts, supersedes *)
(* and completes them.                                                     *)
(***************************************************************************)
EXTENDS Integers, Sequences, FiniteSets, TLC

(***************************************************************************)
(* Bounds of the model.                                                    *)
(***************************************************************************)
MaxItems == 3
MaxDur == 2
MaxLimit == 3
MaxSelections == 2
MaxOldDirs == 1
MaxCap == 2
MaxInFlight == 2
MaxPending == 2
MaxLines == 4
MaxRetained == 2
MaxCalls == 2

(***************************************************************************)
(* Manifest text.  A line of the playlist file is kept as what the code's  *)
(* tests on the stripped line can tell apart:                              *)
(*   k = "extinf"  the line starts with "#EXTINF:"; ok says whether        *)
(*                 float() accepts its duration field, d is that duration  *)
(*   k = "tag"     any other line starting with "#"; f.stem names it       *)
(*   k = "blank"   a line that strips to the empty string                  *)
(*   k = "name"    any other line; f is the stripped text, a file name     *)
(*                 <<stem, extension>>                                     *)
(***************************************************************************)
NoName == [stem |-> 0, ext |-> "none"]
FileName(n, e) == [stem |-> n, ext |-> e]
m3u8_name == [stem |-> 0, ext |-> "m3u8"]

ExtinfLine(ok, d) == [k |-> "extinf", ok |-> ok, d |-> d, f |-> NoName]
TagLine(n) == [k |-> "tag", ok |-> TRUE, d |-> 0, f |-> FileName(n, "tag")]
BlankLine == [k |-> "blank", ok |-> TRUE, d |-> 0, f |-> NoName]
NameLine(f) == [k |-> "name", ok |-> TRUE, d |-> 0, f |-> f]

\* line.startswith("#EXTINF:")
StartsWithExtinf(line) == line.k = "extinf"
\* line.startswith("#")
StartsWithHash(line) == line.k \in {"extinf", "tag"}
\* bool(line.strip())
NonEmpty(line) == line.k # "blank"
\* name.endswith(".ts")
EndsWithTs(name) == name.ext = "ts"
\* the same for the names ending in .ts only
TextIsTs(line, name) == line.k = "name" /\ line.f = name /\ EndsWithTs(name)
\* the stripped text of a line is the file name `name`
TextIs(line, name) == line.k = "name" /\ line.f = name

(***************************************************************************)
(* _parse_all_files_from_m3u8: the walk of lines 927-939, i is 1-based.    *)
(***************************************************************************)
RECURSIVE ParseAllWalk(_, _, _)
ParseAllWalk(lines, i, files) ==
    IF i > Len(lines) THEN files
    ELSE IF StartsWithExtinf(lines[i])
         THEN IF i + 1 <= Len(lines)
                   /\ NonEmpty(lines[i + 1])
                   /\ ~StartsWithHash(lines[i + 1])
                   /\ EndsWithTs(lines[i + 1].f)
              THEN ParseAllWalk(lines, i + 2, Append(files, lines[i + 1].f))
              ELSE ParseAllWalk(lines, i + 2, files)
         ELSE ParseAllWalk(lines, i + 1, files)

parse_all_files_from_m3u8(lines) == ParseAllWalk(lines, 1, <<m3u8_name>>)

(***************************************************************************)
(* _parse_m3u8_for_preview: the walk of lines 954-976.  total is           *)
(* total_duration; a duration float() rejects raises ValueError, which     *)
(* advances by one line; the first segment that takes the total over the   *)
(* limit ends the walk (break).                                            *)
(***************************************************************************)
\* line 968, and the same test with the boundary excluded
PreviewKeepsBelow(total, duration_limit) == total < duration_limit
PreviewKeeps(total, duration_limit) == total <= duration_limit

RECURSIVE ParsePreviewWalk(_, _, _, _, _)
ParsePreviewWalk(lines, i, total, files, duration_limit) ==
    IF i > Len(lines) THEN files
    ELSE IF StartsWithExtinf(lines[i])
         THEN IF ~lines[i].ok
              THEN ParsePreviewWalk(lines, i + 1, total, files, duration_limit)
              ELSE IF i + 1 <= Len(lines)
                        /\ NonEmpty(lines[i + 1])
                        /\ ~StartsWithHash(lines[i + 1])
                   THEN IF PreviewKeeps(total + lines[i].d, duration_limit)
                        THEN ParsePreviewWalk(lines, i + 2, total + lines[i].d,
                                 Append(files, lines[i + 1].f), duration_limit)
                        ELSE files
                   ELSE ParsePreviewWalk(lines, i + 2, total, files, duration_limit)
         ELSE ParsePreviewWalk(lines, i + 1, total, files, duration_limit)

parse_m3u8_for_preview(lines, duration_limit) ==
    ParsePreviewWalk(lines, 1, 0, <<m3u8_name>>, duration_limit)

(***************************************************************************)
(* _update_m3u8_for_preview: the walk of lines 994-1018 that builds        *)
(* new_lines; downloaded_set is set(downloaded_files).                     *)
(***************************************************************************)
RECURSIVE UpdateWalk(_, _, _, _)
UpdateWalk(lines, i, downloaded_set, new_lines) ==
    IF i > Len(lines) THEN new_lines
    ELSE IF StartsWithHash(lines[i]) /\ ~StartsWithExtinf(lines[i])
         THEN UpdateWalk(lines, i + 1, downloaded_set, Append(new_lines, lines[i]))
         ELSE IF StartsWithExtinf(lines[i])
              THEN IF i + 1 <= Len(lines)
                   THEN IF \E n \in downloaded_set : TextIs(lines[i + 1], n)
                        THEN UpdateWalk(lines, i + 2, downloaded_set,
                                 new_lines \o <<lines[i], lines[i + 1]>>)
                        ELSE UpdateWalk(lines, i + 2, downloaded_set, new_lines)
                   ELSE UpdateWalk(lines, i + 1, downloaded_set,
                            Append(new_lines, lines[i]))
              ELSE UpdateWalk(lines, i + 1, downloaded_set, new_lines)

Range(seq) == {seq[j] : j \in 1..Len(seq)}

\* a rewrite that writes the directives and then one pair per downloaded file,
\* in the order of downloaded_files
RECURSIVE PairsInListOrder(_, _)
PairsInListOrder(lines, files) ==
    IF files = <<>> THEN <<>>
    ELSE LET i == CHOOSE j \in 1..Len(lines) :
                      j > 1 /\ TextIs(lines[j], Head(files))
                            /\ StartsWithExtinf(lines[j - 1])
         IN <<lines[i - 1], lines[i]>> \o PairsInListOrder(lines, Tail(files))
update_m3u8_in_download_order(lines, downloaded_files) ==
    SelectSeq(lines, LAMBDA l : StartsWithHash(l) /\ ~StartsWithExtinf(l))
        \o PairsInListOrder(lines, downloaded_files)

\* a rewrite that drops the file name of a segment that was not downloaded
\* and leaves its duration marker in place
RECURSIVE KeepMarkerWalk(_, _, _, _)
KeepMarkerWalk(lines, i, downloaded_set, new_lines) ==
    IF i > Len(lines) THEN new_lines
    ELSE IF ~StartsWithHash(lines[i])
         THEN KeepMarkerWalk(lines, i + 1, downloaded_set, new_lines)
         ELSE IF StartsWithExtinf(lines[i]) /\ i + 1 <= Len(lines)
              THEN KeepMarkerWalk(lines, i + 2, downloaded_set,
                       IF \E n \in downloaded_set : TextIs(lines[i + 1], n)
                       THEN new_lines \o <<lines[i], lines[i + 1]>>
                       ELSE Append(new_lines, lines[i]))
              ELSE KeepMarkerWalk(lines, i + 1, downloaded_set,
                       Append(new_lines, lines[i]))
update_m3u8_keeping_markers(lines, downloaded_files) ==
    KeepMarkerWalk(lines, 1, Range(downloaded_files), <<>>)

update_m3u8_for_preview(lines, downloaded_files) ==
    UpdateWalk(lines, 1, Range(downloaded_files), <<>>)

(***************************************************************************)
(* State.                                                                  *)
(***************************************************************************)
VARIABLES
    remote_m3u8,        \* lines of the playlist file in a remote HLS directory
    cfg,                \* Config.json: preview_duration, multi_thread_download,
                        \* max_cache_dirs, auto_clean_cache, cleanup_on_exit
    fs,                 \* the hls_cache_<k> directories of the temp root
    clock,              \* source of modification times
    tasks,              \* the FtpDownloadWorker threads, by order of creation
    cleaners,           \* the CacheCleanupWorker threads, by order of creation
    ui,                 \* MainWindow: position of the UI thread in on_ftp_selection
    current_cache_dir,  \* MainWindow.current_cache_dir
    download_worker,    \* MainWindow.download_worker (0 is None)
    player,             \* the local directory whose manifest the player has open
    helper,             \* an FtpHelper and the server session behind it
    monitor,            \* MainWindow: the FTP connection and its retry timers
    tmp_dir,            \* the entries of the temp root the cache does not own
    at_exit,            \* cleanup_on_exit, the aboutToQuit handler
    rewrite             \* a playlist file under _update_m3u8_for_preview

vars == <<remote_m3u8, cfg, fs, clock, tasks, cleaners, ui, current_cache_dir,
          download_worker, player, helper, monitor, tmp_dir, at_exit, rewrite>>

(***************************************************************************)
(* Paths under the temp root.  tmp/hls_cache_<k> is <<k>>; the HLS         *)
(* directory inside it, tmp/hls_cache_<k>/<name of the remote directory>,  *)
(* is <<k, 0>>; None is the empty path.                                    *)
(***************************************************************************)
NumPaths == 2
HlsPaths == 1..NumPaths
CacheIds == 1..(NumPaths + MaxOldDirs)
TaskIds == 1..MaxSelections
CleanerIds == 0..MaxSelections
None == <<>>
CacheDir(k) == <<k>>
LocalHlsDir(k) == <<k, 0>>

NoFile == [exists |-> FALSE, lines |-> <<>>]
NoDir == [exists |-> FALSE, mtime |-> 0, m3u8 |-> NoFile, files |-> {}]
FreshDir(t) == [exists |-> TRUE, mtime |-> t, m3u8 |-> NoFile, files |-> {}]

\* local_dir exists on disk (open(local_file, "wb") can succeed)
DirExists(local_dir) == fs[local_dir[1]].exists
\* (self.local_dir / self.m3u8_name).exists()
ManifestExists(local_dir) ==
    fs[local_dir[1]].exists /\ fs[local_dir[1]].m3u8.exists

(***************************************************************************)
(* The temp root.  Besides the hls_cache_<k> directories of fs it can hold *)
(* entries the cache does not own: PlainDir, a directory whose name does   *)
(* not start with hls_cache_, and PrefixedFile, a regular file whose name  *)
(* does.  iterdir() yields the entries that exist.                         *)
(***************************************************************************)
PlainDir == NumPaths + MaxOldDirs + 1
PrefixedFile == PlainDir + 1
OtherIds == {PlainDir, PrefixedFile}
EntryIds == CacheIds \cup OtherIds

NoEntry == [exists |-> FALSE, mtime |-> 0]
NoEntries == [o \in OtherIds |-> NoEntry]

EntryExists(e) == IF e \in CacheIds THEN fs[e].exists ELSE tmp_dir[e].exists
\* item.is_dir()
is_dir(e) == EntryExists(e) /\ e # PrefixedFile
\* item.name.startswith("hls_cache_")
HasPrefix(e) == e \in CacheIds \/ e = PrefixedFile
\* item.stat().st_mtime
Mtime(e) == IF e \in CacheIds THEN fs[e].mtime ELSE tmp_dir[e].mtime

\* the test of lines 717 and 2982, and the same test without the name
MatchesAnyDir(e) == is_dir(e)
Matches(e) == is_dir(e) /\ HasPrefix(e)

\* shutil.rmtree(item, ignore_errors=True) for the entries of S on which it
\* takes effect: a directory goes with all it holds, a regular file is left
\* (the error of scanning it is ignored)
Rmtree(S) ==
    /\ fs' = [k \in CacheIds |-> IF k \in S THEN NoDir ELSE fs[k]]
    /\ tmp_dir' = [o \in OtherIds |->
                      IF o \in S /\ o # PrefixedFile THEN NoEntry ELSE tmp_dir[o]]

(***************************************************************************)
(* FtpDownloadWorker.  The fields of a task are the attributes and the     *)
(* locals of run and _download_multi_thread; checked, xfer, conns,         *)
(* rewritten, warned and event record what the thread has done: the        *)
(* exists calls made, the transfers begun (file and connection used; the   *)
(* primary connection self.ftp is 0, the connection of the pool thread     *)
(* that runs future j is j), the pool connections now open, the manifest   *)
(* rewrite, the warning count and the finished signal.                     *)
(***************************************************************************)
NoTask ==
    [pc |-> "none", local_dir |-> None, preview_duration |-> 0,
     use_multi_thread |-> FALSE, ftp |-> FALSE, past_fetch |-> FALSE,
     files_to_download |-> <<>>, i |-> 1, valid_files |-> <<>>,
     downloaded |-> 0, downloaded_ts_files |-> <<>>, failed_files |-> <<>>,
     max_workers |-> 0, fut |-> <<>>,
     checked |-> <<>>, skipped |-> {}, xfer |-> {}, fetched |-> {}, conns |-> {},
     rewritten |-> FALSE, warned |-> 0, event |-> <<>>, delivered |-> FALSE,
     superseded |-> FALSE]

\* FtpDownloadWorker.__init__ followed by start()
NewTask(local_dir, preview_duration, use_multi_thread) ==
    [NoTask EXCEPT !.pc = "connect", !.local_dir = local_dir,
                   !.preview_duration = preview_duration,
                   !.use_multi_thread = use_multi_thread]

\* QThread.isRunning()
IsRunning(t) == tasks[t].pc \notin {"none", "done", "killed"}

Finished(local_dir, count, success) ==
    <<[local_dir |-> local_dir, count |-> count, success |-> success]>>

SetTask(t, r) == tasks' = [tasks EXCEPT ![t] = r]

\* lines 770-774: connect; on failure emit finished(local_dir, 0, False)
RunConnect(t) ==
    /\ tasks[t].pc = "connect"
    /\ \E ok \in BOOLEAN :
          SetTask(t, IF ok
                     THEN [tasks[t] EXCEPT !.pc = "fetch", !.ftp = TRUE]
                     ELSE [tasks[t] EXCEPT !.pc = "done",
                               !.event = @ \o Finished(tasks[t].local_dir, 0, FALSE)])
    /\ UNCHANGED <<helper, monitor, tmp_dir, at_exit, rewrite,
                   remote_m3u8, cfg, fs, clock, cleaners, ui, current_cache_dir,
                   download_worker, player>>

\* lines 784-791: the target list, read from the local manifest
TargetFiles(lines, preview_duration) ==
    IF preview_duration > 0
    THEN parse_m3u8_for_preview(lines, preview_duration)
    ELSE parse_all_files_from_m3u8(lines)

\* line 798
TsFilesCount(files) ==
    Cardinality({j \in 1..Len(files) : files[j] # m3u8_name})

\* the same without the return of line 782
AfterFetchFailureNoReturn(r) == [r EXCEPT !.pc = "finish"]

\* the same emit of line 781 without the return of line 782
AfterFetchFailureFallsThrough(r) ==
    [r EXCEPT !.pc = "finish", !.event = @ \o Finished(r.local_dir, 0, FALSE)]

\* lines 779-782: the manifest fetch failed: emit finished(local_dir, 0, False)
\* and return (the finally clause disconnects)
AfterFetchFailure(r) ==
    [r EXCEPT !.pc = "done", !.ftp = FALSE,
              !.event = @ \o Finished(r.local_dir, 0, FALSE)]

\* lines 776-782: fetch the manifest with FtpHelper.download.  The transfer
\* succeeds (the local file holds the remote lines), fails before the local
\* file is opened (nothing written) or fails after open(local_path, "wb")
\* (the local file is left truncated).  Then lines 784-806: parse and choose
\* the strategy.
RunFetchManifest(t) ==
    /\ tasks[t].pc = "fetch"
    /\ LET d == tasks[t].local_dir[1]
           failed == AfterFetchFailure(tasks[t])
       IN \/ /\ DirExists(tasks[t].local_dir)
             /\ fs' = [fs EXCEPT ![d].m3u8 = [exists |-> TRUE, lines |-> remote_m3u8]]
             /\ LET files == TargetFiles(remote_m3u8, tasks[t].preview_duration)
                IN SetTask(t, [tasks[t] EXCEPT
                       !.past_fetch = TRUE,
                       !.files_to_download = files,
                       !.pc = IF tasks[t].use_multi_thread /\ TsFilesCount(files) > 0
                              THEN "mt_exists" ELSE "seq"])
          \/ /\ DirExists(tasks[t].local_dir)
             /\ fs' = [fs EXCEPT ![d].m3u8 = [exists |-> TRUE, lines |-> <<>>]]
             /\ SetTask(t, failed)
          \/ /\ fs' = fs
             /\ SetTask(t, failed)
    /\ UNCHANGED <<helper, monitor, tmp_dir, at_exit, rewrite,
                   remote_m3u8, cfg, clock, cleaners, ui, current_cache_dir,
                   download_worker, player>>

\* the local file of a fetched segment is written into local_dir
StoreFile(local_dir, name) ==
    fs' = [fs EXCEPT ![local_dir[1]].files = @ \cup {name}]

\* the same accounting with a failed transfer left unreported
AccountIgnoringFailure(r, name, success) ==
    IF success
    THEN [r EXCEPT !.downloaded = @ + 1,
                   !.fetched = @ \cup {name},
                   !.downloaded_ts_files =
                       IF EndsWithTs(name) THEN Append(@, name) ELSE @]
    ELSE r

\* lines 822-828 and 890-897: account for the result of one transfer
Account(r, name, success) ==
    IF success
    THEN [r EXCEPT !.downloaded = @ + 1,
                   !.fetched = @ \cup {name},
                   !.downloaded_ts_files =
                       IF EndsWithTs(name) THEN Append(@, name) ELSE @]
    ELSE [r EXCEPT !.failed_files = Append(@, name)]

\* a missing file that is reported and submitted to the pool all the same
SkipAndSubmit(r, name) ==
    [r EXCEPT !.failed_files = Append(@, name), !.skipped = @ \cup {name},
              !.valid_files = Append(@, name)]
\* lines 816-819 and 863-867: the file is missing on the remote
Skip(r, name) ==
    [r EXCEPT !.failed_files = Append(@, name), !.skipped = @ \cup {name}]

\* lines 808-828: one iteration of the sequential loop
RunSequential(t) ==
    /\ tasks[t].pc = "seq"
    /\ LET r == tasks[t]
           n == Len(r.files_to_download)
       IN IF r.i > n
          THEN /\ SetTask(t, [r EXCEPT !.pc = "finish"])
               /\ fs' = fs
          ELSE LET name == r.files_to_download[r.i]
                   nxt == [r EXCEPT !.i = @ + 1]
               IN IF name = m3u8_name
                  THEN /\ SetTask(t, nxt)
                       /\ fs' = fs
                  ELSE LET chk == [nxt EXCEPT !.checked = Append(@, name)]
                           beg == [chk EXCEPT !.xfer = @ \cup {<<name, 0>>}]
                       IN \/ /\ SetTask(t, Skip(chk, name))
                             /\ fs' = fs
                          \/ /\ DirExists(r.local_dir)
                             /\ SetTask(t, Account(beg, name, TRUE))
                             /\ StoreFile(r.local_dir, name)
                          \/ /\ SetTask(t, Account(beg, name, FALSE))
                             /\ fs' = fs
    /\ UNCHANGED <<helper, monitor, tmp_dir, at_exit, rewrite,
                   remote_m3u8, cfg, clock, cleaners, ui, current_cache_dir,
                   download_worker, player>>

\* line 857
FilterTs(files) == SelectSeq(files, LAMBDA name : name # m3u8_name)

\* the pool size cap of line 873
PoolCap == 5
\* a pool as large as the file list
MaxWorkersUncapped(valid_files) == Len(valid_files)
\* line 873
MaxWorkers(valid_files) ==
    IF Len(valid_files) < PoolCap THEN Len(valid_files) ELSE PoolCap

\* lines 859-883: one existence check of the pooled strategy on the primary
\* connection; after the last one, return early when nothing is valid,
\* otherwise create the pool and submit one future per valid file
RunCheckExists(t) ==
    /\ tasks[t].pc = "mt_exists"
    /\ LET r == tasks[t]
           ts == FilterTs(r.files_to_download)
       IN IF r.i > Len(ts)
          THEN IF r.valid_files = <<>>
               THEN SetTask(t, [r EXCEPT !.pc = "finish"])
               ELSE SetTask(t, [r EXCEPT !.pc = "mt_pool",
                        !.max_workers = MaxWorkers(r.valid_files),
                        !.fut = [j \in 1..Len(r.valid_files) |-> "queued"]])
          ELSE LET name == ts[r.i]
                   chk == [r EXCEPT !.i = @ + 1, !.checked = Append(@, name)]
               IN \/ SetTask(t, [chk EXCEPT !.valid_files = Append(@, name)])
                  \/ SetTask(t, Skip(chk, name))
    /\ UNCHANGED <<helper, monitor, tmp_dir, at_exit, rewrite,
                   remote_m3u8, cfg, fs, clock, cleaners, ui, current_cache_dir,
                   download_worker, player>>

Running(r) == {j \in 1..Len(r.fut) : r.fut[j] = "running"}
Queued(r) == {j \in 1..Len(r.fut) : r.fut[j] = "queued"}

\* a pool thread may take work: fewer than max_workers threads are busy
PoolHasIdleThread(r) == Cardinality(Running(r)) < r.max_workers

\* the pool threads working on the task's own connection self.ftp
SharedConnection(j) == 0
\* line 908: the connection the pool thread running future j works on
WorkerConnection(j) == j

\* lines 904-910: a pool thread takes the oldest queued future and opens a
\* connection of its own; if connect fails the future's result is False
WorkerConnect(t, j) ==
    /\ tasks[t].pc \in {"mt_pool", "killed"}
    /\ j \in Queued(tasks[t])
    /\ \A h \in Queued(tasks[t]) : j <= h
    /\ PoolHasIdleThread(tasks[t])
    /\ \E ok \in BOOLEAN :
          SetTask(t, IF ok
                     THEN [tasks[t] EXCEPT !.fut[j] = "running",
                                           !.conns = @ \cup {WorkerConnection(j)}]
                     ELSE [tasks[t] EXCEPT !.fut[j] = "fail"])
    /\ UNCHANGED <<helper, monitor, tmp_dir, at_exit, rewrite,
                   remote_m3u8, cfg, fs, clock, cleaners, ui, current_cache_dir,
                   download_worker, player>>

\* lines 914-915: the finally clause disconnects the worker's connection
AfterTransfer(conns, j) == conns \ {WorkerConnection(j)}

\* lines 911-915: the transfer on the worker's connection, then disconnect
WorkerTransfer(t, j) ==
    /\ tasks[t].pc \in {"mt_pool", "killed"}
    /\ j \in Running(tasks[t])
    /\ LET r == tasks[t]
           name == r.valid_files[j]
           beg == [r EXCEPT !.xfer = @ \cup {<<name, WorkerConnection(j)>>},
                            !.conns = AfterTransfer(@, j)]
       IN \/ /\ DirExists(r.local_dir)
             /\ SetTask(t, [beg EXCEPT !.fut[j] = "ok"])
             /\ StoreFile(r.local_dir, name)
          \/ /\ SetTask(t, [beg EXCEPT !.fut[j] = "fail"])
             /\ fs' = fs
    /\ UNCHANGED <<helper, monitor, tmp_dir, at_exit, rewrite,
                   remote_m3u8, cfg, clock, cleaners, ui, current_cache_dir,
                   download_worker, player>>

\* lines 886-902: as_completed hands over a finished future; when every
\* future has been handed over the pool is shut down and the lists returned
RunCollect(t) ==
    /\ tasks[t].pc = "mt_pool"
    /\ LET r == tasks[t]
       IN IF \A j \in 1..Len(r.fut) : r.fut[j] = "got"
          THEN SetTask(t, [r EXCEPT !.pc = "finish"])
          ELSE \E j \in 1..Len(r.fut) :
                  /\ r.fut[j] \in {"ok", "fail"}
                  /\ SetTask(t, [Account(r, r.valid_files[j], r.fut[j] = "ok")
                                    EXCEPT !.fut[j] = "got"])
    /\ UNCHANGED <<helper, monitor, tmp_dir, at_exit, rewrite,
                   remote_m3u8, cfg, fs, clock, cleaners, ui, current_cache_dir,
                   download_worker, player>>

\* line 831: the manifest is rewritten when some .ts file was fetched
ShouldRewrite(downloaded_ts_files) == downloaded_ts_files # <<>>

\* success that also asks for no failed file
SuccessOnlyIfNoFailure(r) == ManifestExists(r.local_dir) /\ r.failed_files = <<>>
\* line 838: success = (self.local_dir / self.m3u8_name).exists()
Success(r) == ManifestExists(r.local_dir)

\* lines 830-846: rewrite the local manifest, warn, emit finished, disconnect
RunFinish(t) ==
    /\ tasks[t].pc = "finish"
    /\ LET r == tasks[t]
           d == r.local_dir[1]
           write == ShouldRewrite(r.downloaded_ts_files) /\ ManifestExists(r.local_dir)
       IN /\ fs' = IF write
                   THEN [fs EXCEPT ![d].m3u8.lines =
                            update_m3u8_for_preview(@, r.downloaded_ts_files)]
                   ELSE fs
          /\ SetTask(t, [r EXCEPT
                 !.pc = "done", !.ftp = FALSE,
                 !.rewritten = write,
                 !.warned = Len(r.failed_files),
                 !.event = @ \o Finished(r.local_dir, r.downloaded + 1, Success(r))])
    /\ UNCHANGED <<helper, monitor, tmp_dir, at_exit, rewrite,
                   remote_m3u8, cfg, clock, cleaners, ui, current_cache_dir,
                   download_worker, player>>

\* the steps of run that both strategies take
TaskStepCommon(t) ==
    \/ RunConnect(t)
    \/ RunFetchManifest(t)
    \/ RunFinish(t)

\* the steps of _download_multi_thread and of the pool threads; none is
\* enabled in a task whose use_multi_thread is False
TaskStepPooled(t) ==
    \/ RunCheckExists(t)
    \/ \E j \in 1..Len(tasks[t].fut) : WorkerConnect(t, j)
    \/ \E j \in 1..Len(tasks[t].fut) : WorkerTransfer(t, j)
    \/ RunCollect(t)

\* the steps of FtpDownloadWorker.run and of its pool threads
TaskStep(t) ==
    \/ TaskStepCommon(t)
    \/ RunSequential(t)
    \/ TaskStepPooled(t)

(***************************************************************************)
(* Remote playlists.  A playlist is built of items: a directive line, a    *)
(* blank line, a segment (duration marker, file name) whose duration       *)
(* float() accepts, and a segment whose duration it rejects.  The n-th     *)
(* item's file is named n.                                                 *)
(***************************************************************************)
Items ==
    {[kind |-> "tag", d |-> 0, ext |-> "tag"], [kind |-> "blank", d |-> 0, ext |-> "none"],
     [kind |-> "bad", d |-> 0, ext |-> "ts"]}
    \cup {[kind |-> "seg", d |-> d, ext |-> "ts"] : d \in 1..MaxDur}
    \cup {[kind |-> "seg", d |-> 1, ext |-> "mp4"]}

ItemLines(it, n) ==
    CASE it.kind = "tag" -> <<TagLine(n)>>
      [] it.kind = "blank" -> <<BlankLine>>
      [] it.kind = "seg" -> <<ExtinfLine(TRUE, it.d), NameLine(FileName(n, it.ext))>>
      [] it.kind = "bad" -> <<ExtinfLine(FALSE, 0), NameLine(FileName(n, it.ext))>>

RECURSIVE Render(_, _)
Render(items, n) ==
    IF n > Len(items) THEN <<>>
    ELSE ItemLines(items[n], n) \o Render(items, n + 1)

Playlists ==
    UNION {{Render(items, 1) : items \in [1..n -> Items]} : n \in 0..MaxItems}

\* a playlist of n segments of one second each
Uniform(n) == Render([j \in 1..n |-> [kind |-> "seg", d |-> 1, ext |-> "ts"]], 1)

(***************************************************************************)
(* CacheCleanupWorker.  to_delete, i and cleaned_count are the locals of   *)
(* run; removed records the directories its rmtree calls removed and       *)
(* emitted the finished signal.                                            *)
(***************************************************************************)
NoCleaner ==
    [pc |-> "none", max_dirs |-> 0, current_cache_dir |-> None,
     cache_dirs |-> <<>>, to_delete |-> <<>>, i |-> 1, cleaned_count |-> 0, removed |-> {},
     emitted |-> <<>>]

\* CacheCleanupWorker.__init__ followed by start()
NewCleaner(max_dirs, active) ==
    [NoCleaner EXCEPT !.pc = "scan", !.max_dirs = max_dirs,
                      !.current_cache_dir = active]

\* the same directories, newest first
RECURSIVE SortNewestFirst(_)
SortNewestFirst(S) ==
    IF S = {} THEN <<>>
    ELSE LET k == CHOOSE x \in S : \A y \in S : Mtime(x) >= Mtime(y)
         IN <<k>> \o SortNewestFirst(S \ {k})

\* lines 716-730: the hls_cache_ directories, oldest first
RECURSIVE SortByMtime(_)
SortByMtime(S) ==
    IF S = {} THEN <<>>
    ELSE LET k == CHOOSE x \in S : \A y \in S : Mtime(x) <= Mtime(y)
         IN <<k>> \o SortByMtime(S \ {k})

\* the same slice taken as soon as the cap is reached, and one short of it
ToDeleteAtCap(cache_dirs, max_dirs) ==
    IF Len(cache_dirs) >= max_dirs
    THEN SubSeq(cache_dirs, 1, Len(cache_dirs) - max_dirs + 1)
    ELSE <<>>
ToDeleteButOne(cache_dirs, max_dirs) ==
    IF Len(cache_dirs) > max_dirs
    THEN SubSeq(cache_dirs, 1, Len(cache_dirs) - max_dirs - 1)
    ELSE <<>>

\* lines 733-734: the oldest len - max_dirs directories
ToDelete(cache_dirs, max_dirs) ==
    IF Len(cache_dirs) > max_dirs
    THEN SubSeq(cache_dirs, 1, Len(cache_dirs) - max_dirs)
    ELSE <<>>

\* line 737: the directory is the one in use
IsCurrent(k, active) == active # None /\ CacheDir(k) = active

SetCleaner(c, r) == cleaners' = [cleaners EXCEPT ![c] = r]

\* lines 711-734: enumerate, sort, choose what to delete; cache_dirs is the
\* list of (mtime, item) pairs, to_delete the items of its slice
CleanupScan(c) ==
    /\ cleaners[c].pc = "scan"
    /\ LET r == cleaners[c]
           sorted == SortByMtime({e \in EntryIds : Matches(e)})
           cache_dirs == [j \in 1..Len(sorted) |-> <<Mtime(sorted[j]), sorted[j]>>]
           td == ToDelete(sorted, r.max_dirs)
           scanned == [r EXCEPT !.cache_dirs = cache_dirs]
       IN SetCleaner(c, IF td = <<>>
                        THEN [scanned EXCEPT !.pc = "done", !.emitted = <<0>>]
                        ELSE [scanned EXCEPT !.pc = "delete", !.to_delete = td])
    /\ UNCHANGED <<helper, monitor, tmp_dir, at_exit, rewrite,
                   remote_m3u8, cfg, fs, clock, tasks, ui, current_cache_dir,
                   download_worker, player>>

\* lines 735-747: one iteration of the deletion loop; rmtree with
\* ignore_errors removes the directory or leaves it, and is counted either
\* way; after the last one emit finished(cleaned_count)
CleanupDelete(c) ==
    /\ cleaners[c].pc = "delete"
    /\ LET r == cleaners[c]
       IN IF r.i > Len(r.to_delete)
          THEN /\ SetCleaner(c, [r EXCEPT !.pc = "done",
                                          !.emitted = <<r.cleaned_count>>])
               /\ Rmtree({})
          ELSE LET k == r.to_delete[r.i]
                   nxt == [r EXCEPT !.i = @ + 1]
               IN IF IsCurrent(k, r.current_cache_dir)
                  THEN /\ SetCleaner(c, nxt)
                       /\ Rmtree({})
                  ELSE \/ /\ is_dir(k)
                          /\ Rmtree({k})
                          /\ SetCleaner(c, [nxt EXCEPT !.cleaned_count = @ + 1,
                                                       !.removed = @ \cup {k}])
                       \/ /\ Rmtree({})
                          /\ SetCleaner(c, [nxt EXCEPT !.cleaned_count = @ + 1])
    /\ UNCHANGED <<helper, monitor, at_exit, rewrite, remote_m3u8, cfg, clock, tasks, ui,
                   current_cache_dir, download_worker, player>>

(***************************************************************************)
(* cleanup_on_exit (lines 2972-2988), connected to aboutToQuit: when the   *)
(* setting is on, rmtree with ignore_errors on every hls_cache_ directory  *)
(* of the temp root; each call removes its directory or leaves it.  The    *)
(* user's cleanup script of lines 2990-3002 is a separate process.         *)
(***************************************************************************)
NotExited == [ran |-> FALSE, attempted |-> {}, removed |-> {}]

\* lines 2981-2982: the entries rmtree is called on, and the same without
\* the cache directory in use
ExitItemsButCurrent ==
    {e \in EntryIds : Matches(e) /\ current_cache_dir \notin {CacheDir(e), LocalHlsDir(e)}}
ExitItems == {e \in EntryIds : Matches(e)}

cleanup_on_exit ==
    /\ ~at_exit.ran
    /\ IF cfg.cleanup_on_exit
       THEN \E gone \in SUBSET ExitItems :
               /\ Rmtree(gone)
               /\ at_exit' = [ran |-> TRUE, attempted |-> ExitItems,
                              removed |-> gone]
       ELSE /\ Rmtree({})
            /\ at_exit' = [NotExited EXCEPT !.ran = TRUE]
    /\ UNCHANGED <<helper, monitor, rewrite, remote_m3u8, cfg, clock, tasks, cleaners,
                   ui, current_cache_dir, download_worker, player>>

(***************************************************************************)
(* MainWindow.                                                             *)
(***************************************************************************)
\* calls holds the FtpHelper operations the UI thread has run itself
Idle == [pc |-> "idle", path |-> 0, calls |-> {}]
NoMedia == [media |-> None, playing |-> FALSE]

Created(fn) == {x \in DOMAIN fn : fn[x].pc # "none"}
\* the next worker object of each kind
NextTask == Cardinality(Created(tasks)) + 1
NextCleaner == Cardinality(Created(cleaners))

\* lines 2617-2624: stop the running download.  terminate() ends the worker
\* thread where it stands, or, when the platform does not end it within the
\* wait, leaves it running; the threads of its pool are not touched
StopOldDownload(killed) ==
    IF download_worker # 0 /\ IsRunning(download_worker)
    THEN /\ download_worker' = 0
         /\ tasks' = [tasks EXCEPT ![download_worker] =
                [@ EXCEPT !.pc = IF killed THEN "killed" ELSE @,
                          !.superseded = TRUE]]
    ELSE UNCHANGED <<download_worker, tasks>>

\* lines 2612-2695 of on_ftp_selection: stop the old download and the
\* player; ask self.ftp.exists for the manifest (line 2683, in the handler
\* itself); for an HLS directory whose manifest exists, start the eviction
\* worker with the current cache directory
SelectBegin(path) ==
    /\ ui.pc = "idle"
    /\ NextTask \in TaskIds
    /\ \E killed \in BOOLEAN : StopOldDownload(killed)
    /\ player' = [player EXCEPT !.playing = FALSE]
    /\ \E has_manifest \in BOOLEAN :
          IF has_manifest
          THEN /\ IF cfg.auto_clean_cache
                  THEN SetCleaner(NextCleaner,
                           NewCleaner(cfg.max_cache_dirs, current_cache_dir))
                  ELSE UNCHANGED cleaners
               /\ ui' = [pc |-> "selected", path |-> path,
                         calls |-> ui.calls \cup {"exists"}]
          ELSE /\ UNCHANGED cleaners
               /\ ui' = [ui EXCEPT !.calls = @ \cup {"exists"}]
    /\ UNCHANGED <<helper, monitor, tmp_dir, at_exit, rewrite,
                   remote_m3u8, cfg, fs, clock, current_cache_dir>>

\* line 2700: mkdir(parents=True, exist_ok=True)
Mkdir(k) ==
    IF fs[k].exists
    THEN UNCHANGED <<fs, clock>>
    ELSE /\ fs' = [fs EXCEPT ![k] = FreshDir(clock)]
         /\ clock' = clock + 1

\* lines 2697-2727 of on_ftp_selection: create the local directory, record
\* it as the current cache directory, start the download worker
SelectEnd ==
    /\ ui.pc = "selected"
    /\ Mkdir(ui.path)
    /\ current_cache_dir' = LocalHlsDir(ui.path)
    /\ download_worker' = NextTask
    /\ tasks' = [tasks EXCEPT ![NextTask] =
           NewTask(LocalHlsDir(ui.path), cfg.preview_duration,
                   cfg.multi_thread_download)]
    /\ ui' = [ui EXCEPT !.pc = "idle", !.path = 0]
    /\ UNCHANGED <<helper, monitor, tmp_dir, at_exit, rewrite,
                   remote_m3u8, cfg, cleaners, player>>

\* lines 2938-2958: the finished signal of a worker reaches the UI thread
on_download_finished(t) ==
    /\ ui.pc = "idle"
    /\ tasks[t].event # <<>> /\ ~tasks[t].delivered
    /\ LET ev == tasks[t].event[1]
       IN IF ev.success /\ ManifestExists(ev.local_dir)
          THEN /\ player' = [media |-> ev.local_dir, playing |-> TRUE]
               /\ current_cache_dir' = ev.local_dir
          ELSE UNCHANGED <<player, current_cache_dir>>
    /\ tasks' = [tasks EXCEPT ![t].delivered = TRUE]
    /\ UNCHANGED <<helper, monitor, tmp_dir, at_exit, rewrite,
                   remote_m3u8, cfg, fs, clock, cleaners, ui, download_worker>>

(***************************************************************************)
(* FtpHelper.  A remote path is the sequence of its components: <<>> is    *)
(* "/".  The server holds the directories Dirs and the files Files; a      *)
(* command is answered by the server while the session is alive and fails  *)
(* with a transport error once it is lost.  Every command of an operation  *)
(* is logged with its part in the operation, its outcome and the working   *)
(* directory of the session after it.                                      *)
(***************************************************************************)
Dirs == {<<>>, <<"a">>, <<"a", "sub">>}
Files == {<<"a", "1.ts">>, <<"a", "notes">>}
RemoteFiles == Files \cup {<<"a", "9.ts">>, <<"1.ts">>}
Entries(path) ==
    IF path = <<>> THEN <<"a">>
    ELSE IF path = <<"a">> THEN <<"sub", "1.ts", "notes">>
    ELSE <<>>
ListingReplies == {"ok", "error_perm", "error_temp"}

\* os.path.dirname(remote_path) or "/", os.path.basename(remote_path)
dirname(remote_path) == SubSeq(remote_path, 1, Len(remote_path) - 1)
basename(remote_path) == remote_path[Len(remote_path)]

NoResult == [ok |-> FALSE, items |-> <<>>]
NoHelper ==
    [ftp |-> "None", session |-> FALSE, wd |-> <<>>, op |-> "init",
     at_call |-> <<>>, log |-> <<>>, result |-> NoResult,
     failed_before |-> FALSE]

\* the entry of an operation: the log starts empty
Call(h, op) ==
    [h EXCEPT !.op = op, !.at_call = h.wd, !.log = <<>>, !.result = NoResult]

Cmd(h, cmd, role, ok, wd) ==
    [h EXCEPT !.wd = IF ok THEN wd ELSE @,
              !.log = Append(@, [cmd |-> cmd, role |-> role, ok |-> ok,
                                 wd |-> IF ok THEN wd ELSE h.wd])]
LastOk(h) == h.log[Len(h.log)].ok

\* self.ftp.cwd(target): the server changes directory if target is one
Cwd(h, role, target) ==
    Cmd(h, "CWD", role, h.session /\ target \in Dirs, target)
\* a command that leaves the working directory alone
Plain(h, cmd, role, ok) == Cmd(h, cmd, role, h.session /\ ok, h.wd)

\* lines 1136-1142: FtpHelper.pwd answers "/" when the command fails
PwdValue(h) == IF h.session THEN h.wd ELSE <<>>

\* lines 1052-1055: connect failed: disconnect() quits and forgets self.ftp
AfterConnectFailureKeepsFtp(h, up) ==
    [h EXCEPT !.ftp = "FTP", !.session = up, !.failed_before = TRUE]
AfterConnectFailure(h, up) ==
    [(IF up THEN Plain([h EXCEPT !.session = TRUE], "QUIT", "quit", TRUE) ELSE h)
        EXCEPT !.ftp = "None", !.session = FALSE, !.failed_before = TRUE]

\* lines 1040-1055: stage is the call that raises: "connect", "login" or
\* "cwd" (of base_path), or "none"
connect(h, stage, base_path) ==
    IF stage = "none"
    THEN [h EXCEPT !.ftp = "FTP", !.session = TRUE, !.wd = base_path,
                   !.result = [ok |-> TRUE, items |-> <<>>]]
    ELSE AfterConnectFailure([h EXCEPT !.wd = <<>>], stage # "connect")

\* lines 1057-1064
disconnect(h) ==
    [(IF h.ftp # "None" THEN Plain(h, "QUIT", "quit", TRUE) ELSE h)
        EXCEPT !.ftp = "None", !.session = FALSE, !.wd = <<>>]

\* lines 1101-1103: the names that are taken for files without a probe
NoCommonExtension(name) == FALSE
CommonExtension(name) == name = "1.ts"

\* lines 1094-1113: a name is a directory if the session can change into
\* it and back
RECURSIVE ProbeWalk(_, _, _, _, _)
ProbeWalk(h, names, i, current_path, result) ==
    IF i > Len(names) THEN [h |-> h, result |-> result]
    ELSE LET name == names[i]
         IN IF CommonExtension(name)
            THEN ProbeWalk(h, names, i + 1, current_path,
                           Append(result, <<name, FALSE>>))
            ELSE LET h1 == Cwd(h, "probe", Append(h.wd, name))
                     h2 == IF LastOk(h1)
                           THEN Cwd(h1, "probe_back", current_path) ELSE h1
                 IN ProbeWalk(h2, names, i + 1, current_path,
                              Append(result, <<name, LastOk(h1) /\ LastOk(h2)>>))

Detailed(path) ==
    [i \in 1..Len(Entries(path)) |->
        <<Entries(path)[i], Append(path, Entries(path)[i]) \in Dirs>>]

\* lines 1114-1126: the third listing
ListMlsd(h, reply) ==
    LET h1 == Plain(h, "MLSD", "listing", reply.mlsd = "ok")
    IN [h |-> h1, result |-> IF LastOk(h1) THEN Detailed(h1.wd) ELSE <<>>]

\* lines 1086-1113: the second listing, with the probes
ListNlst(h, reply) ==
    LET h1 == Plain(h, "NLST", "listing", reply.nlst = "ok")
        h2 == Plain(h1, "PWD", "probe_base", TRUE)
    IN IF ~LastOk(h1) THEN ListMlsd(h1, reply)
       ELSE IF ~LastOk(h2) THEN ListMlsd(h2, reply)
       ELSE ProbeWalk(h2, Entries(h2.wd), 1, h2.wd, <<>>)

\* line 1086: only error_perm is caught around the first listing
FallsBack(h, reply) == h.session /\ reply.list = "error_perm"

\* lines 1074-1128: the listings, tried in order
Listing(h, reply) ==
    LET h1 == Plain(h, "LIST", "listing", reply.list = "ok")
    IN IF LastOk(h1) THEN [h |-> h1, result |-> Detailed(h1.wd)]
       ELSE IF FallsBack(h1, reply) THEN ListNlst(h1, reply)
       ELSE [h |-> h1, result |-> <<>>]

\* lines 1129-1133
NoRestoreAfterListing(h, cwd) == h
RestoreAfterListing(h, cwd) == Cwd(h, "restore", cwd)

\* lines 1066-1134
list_dir(h, path, reply) ==
    IF h.ftp = "None" THEN h
    ELSE LET cwd == PwdValue(h)
             h0 == Plain(h, "PWD", "save", TRUE)
             h1 == Cwd(h0, "enter", path)
             out == IF LastOk(h1) THEN Listing(h1, reply)
                    ELSE [h |-> h1, result |-> <<>>]
             h2 == RestoreAfterListing(out.h, cwd)
         IN [h2 EXCEPT !.result = [ok |-> TRUE, items |-> out.result]]

\* lines 1144-1155
exists(h, remote_path, reply) ==
    IF h.ftp = "None" THEN h
    ELSE LET h1 == list_dir(h, dirname(remote_path), reply)
         IN [h1 EXCEPT !.result =
                [ok |-> \E i \in 1..Len(h1.result.items) :
                            h1.result.items[i][1] = basename(remote_path),
                 items |-> <<>>]]

\* lines 1160-1170 and 1175-1186: change to the parent, open the local
\* file, transfer, change back; any exception ends the operation
Transfer(h, remote_path, verb, open_ok, transfer_ok) ==
    LET cwd == PwdValue(h)
        h0 == Plain(h, "PWD", "save", TRUE)
        h1 == Cwd(h0, "enter", dirname(remote_path))
        h2 == Plain(h1, verb, "transfer", transfer_ok)
        h3 == Cwd(h2, "restore", cwd)
    IN IF ~LastOk(h1) THEN h1
       ELSE IF ~open_ok THEN h1
       ELSE IF ~LastOk(h2) THEN h2
       ELSE IF ~LastOk(h3) THEN h3
       ELSE [h3 EXCEPT !.result = [ok |-> TRUE, items |-> <<>>]]

\* lines 1157-1170
download(h, remote_path, open_ok) ==
    IF h.ftp = "None" THEN h
    ELSE Transfer(h, remote_path, "RETR", open_ok, remote_path \in Files)

\* lines 1188-1198: a failed MKD is ignored
RECURSIVE makedirs(_, _, _)
makedirs(h, remote_dir, i) ==
    IF h.ftp = "None" \/ i > Len(remote_dir) THEN h
    ELSE makedirs(Plain(h, "MKD", "mkdir", SubSeq(remote_dir, 1, i) \notin Dirs),
                  remote_dir, i + 1)

\* lines 1172-1186
upload(h, remote_path, open_ok, store_ok) ==
    IF h.ftp = "None" THEN h
    ELSE Transfer(makedirs(h, dirname(remote_path), 1), remote_path, "STOR",
                  open_ok, store_ok)

(***************************************************************************)
(* The operations of one FtpHelper, called one after the other, and the    *)
(* loss of its session.                                                    *)
(***************************************************************************)
appvars == <<tmp_dir, at_exit, rewrite, remote_m3u8, cfg, fs, clock, tasks, cleaners, ui, current_cache_dir,
             download_worker, player>>

Replies == [list : ListingReplies, nlst : {"ok", "error_perm"},
            mlsd : {"ok", "error_perm"}]

HelperConnect ==
    /\ helper.ftp = "None"
    /\ \E stage \in {"none", "connect", "login", "cwd"}, base_path \in Dirs :
          /\ helper' = connect(Call(helper, "connect"), stage, base_path)
          /\ UNCHANGED <<monitor, appvars>>

HelperDisconnect ==
    /\ helper' = disconnect(Call(helper, "disconnect"))
    /\ UNCHANGED <<monitor, appvars>>

HelperListDir ==
    \E path \in Dirs \cup {<<"b">>}, reply \in Replies :
        /\ helper' = list_dir(Call(helper, "list_dir"), path, reply)
        /\ UNCHANGED <<monitor, appvars>>

HelperExists ==
    \E remote_path \in RemoteFiles, reply \in Replies :
        /\ helper' = exists(Call(helper, "exists"), remote_path, reply)
        /\ UNCHANGED <<monitor, appvars>>

HelperDownload ==
    \E remote_path \in RemoteFiles, open_ok \in BOOLEAN :
        /\ helper' = download(Call(helper, "download"), remote_path, open_ok)
        /\ UNCHANGED <<monitor, appvars>>

HelperUpload ==
    \E remote_path \in RemoteFiles, open_ok \in BOOLEAN, store_ok \in BOOLEAN :
        /\ helper' = upload(Call(helper, "upload"), remote_path, open_ok, store_ok)
        /\ UNCHANGED <<monitor, appvars>>

\* the server or the network ends the session; the FtpHelper is not told
SessionLost ==
    /\ helper.session
    /\ helper' = [helper EXCEPT !.session = FALSE]
    /\ UNCHANGED <<monitor, appvars>>


(***************************************************************************)
(* The connection of the main window and its retries.  host is whether     *)
(* the FTP configuration names a host; has_ftp is whether MainWindow.ftp   *)
(* has been assigned (only on_ftp_connected assigns it), ftp_live whether  *)
(* that FtpHelper holds a connection; shots counts the pending             *)
(* singleShot(500, connect_ftp) timers and workers the FtpConnectWorker    *)
(* threads that have not reported yet.  last is the last event of the      *)
(* monitor and cause what started the last attempt; incomplete is set      *)
(* from the moment connect_ftp found no host until the settings are        *)
(* accepted again; orphaned is set once on_ftp_connected has replaced a    *)
(* MainWindow.ftp that held a connection, without a disconnect() of it.    *)
(***************************************************************************)
RetryDelay == 5000
CountdownStart == 5
NoMonitor ==
    [host |-> FALSE, has_ftp |-> FALSE, ftp_live |-> FALSE,
     ftp_connected |-> FALSE, retry_active |-> FALSE, retry_interval |-> 0,
     countdown_active |-> FALSE, ftp_retry_countdown |-> CountdownStart,
     shots |-> 0, workers |-> 0, last |-> "init", cause |-> "none",
     incomplete |-> FALSE, orphaned |-> FALSE]

\* lines 2415-2425
update_retry_countdown(m) ==
    IF m.ftp_connected THEN [m EXCEPT !.countdown_active = FALSE]
    ELSE [m EXCEPT !.ftp_retry_countdown =
              IF @ - 1 > 0 THEN @ - 1 ELSE CountdownStart]

\* line 2370: self.ftp = ftp drops the FtpHelper self.ftp referred to
Replaced(m) == m.has_ftp /\ m.ftp_live

\* lines 2369-2373
on_ftp_connected_keeps_timers(m) ==
    [m EXCEPT !.has_ftp = TRUE, !.ftp_live = TRUE, !.ftp_connected = TRUE,
              !.workers = @ - 1, !.last = "connected",
              !.orphaned = @ \/ Replaced(m)]
on_ftp_connected(m) ==
    [m EXCEPT !.has_ftp = TRUE, !.ftp_live = TRUE, !.ftp_connected = TRUE,
              !.retry_active = FALSE, !.countdown_active = FALSE,
              !.workers = @ - 1, !.last = "connected",
              !.orphaned = @ \/ Replaced(m)]

\* lines 2394-2398
StartRetryNever(m) == m
StartRetry(m) ==
    IF ~m.retry_active
    THEN [m EXCEPT !.retry_active = TRUE, !.retry_interval = RetryDelay,
                   !.ftp_retry_countdown = CountdownStart,
                   !.countdown_active = TRUE]
    ELSE m

\* lines 2391-2399
on_ftp_failed(m) ==
    update_retry_countdown(
        StartRetry([m EXCEPT !.ftp_connected = FALSE, !.workers = @ - 1,
                             !.last = "failed"]))

\* lines 2357-2358: nothing to do when the connection is up
AlreadyConnected(m) == m.ftp_connected /\ m.has_ftp /\ m.ftp_live

\* lines 2348-2413
connect_ftp(m, cause) ==
    IF ~m.host
    THEN [m EXCEPT !.retry_active = FALSE, !.last = "nohost",
                   !.incomplete = TRUE]
    ELSE IF AlreadyConnected(m) THEN m
    ELSE [m EXCEPT !.ftp_live = FALSE, !.workers = @ + 1,
                   !.last = "attempt", !.cause = cause]

\* lines 2777-2789: the settings dialog was accepted
show_settings(m, host) ==
    IF m.has_ftp
    THEN [m EXCEPT !.host = host, !.ftp_connected = FALSE,
                   !.retry_active = FALSE, !.countdown_active = FALSE,
                   !.ftp_live = FALSE, !.shots = @ + 1,
                   !.last = "settings", !.incomplete = FALSE]
    ELSE [m EXCEPT !.host = host, !.last = "settings", !.incomplete = FALSE]

\* whether connect_ftp would start a worker
StartsAttempt(m) == m.host /\ ~AlreadyConnected(m)

ShotFires ==
    /\ monitor.shots > 0
    /\ StartsAttempt(monitor) => monitor.workers < MaxInFlight
    /\ monitor' = connect_ftp([monitor EXCEPT !.shots = @ - 1], "shot")
    /\ UNCHANGED <<helper, appvars>>

RetryTimeout ==
    /\ monitor.retry_active
    /\ StartsAttempt(monitor) => monitor.workers < MaxInFlight
    /\ monitor' = connect_ftp(monitor, "retry")
    /\ UNCHANGED <<helper, appvars>>

CountdownTimeout ==
    /\ monitor.countdown_active
    /\ monitor' = update_retry_countdown(monitor)
    /\ UNCHANGED <<helper, appvars>>

WorkerConnected ==
    /\ monitor.workers > 0
    /\ monitor' = on_ftp_connected(monitor)
    /\ UNCHANGED <<helper, appvars>>

WorkerFailed ==
    /\ monitor.workers > 0
    /\ monitor' = on_ftp_failed(monitor)
    /\ UNCHANGED <<helper, appvars>>

SettingsAccepted ==
    /\ monitor.has_ftp => monitor.shots < MaxPending
    /\ \E host \in BOOLEAN :
          monitor' = show_settings(monitor, host)
    /\ UNCHANGED <<helper, appvars>>

(***************************************************************************)
(* A playlist file of any lines under _update_m3u8_for_preview, with any   *)
(* list of downloaded file names.                                          *)
(***************************************************************************)
Names == {FileName(1, "ts"), FileName(2, "ts"), FileName(1, "mp4")}
Lines ==
    {ExtinfLine(TRUE, 1), ExtinfLine(FALSE, 0), TagLine(1), BlankLine}
    \cup {NameLine(f) : f \in Names}
Texts == UNION {[1..n -> Lines] : n \in 0..MaxLines}
Retained == UNION {[1..n -> Names] : n \in 0..MaxRetained}

NoRewrite ==
    [text |-> <<>>, downloaded_files |-> <<>>, lines |-> <<>>, before |-> <<>>,
     calls |-> 0]

\* lines 984-1022: read the file, build new_lines, write them back
UpdateM3u8 ==
    /\ rewrite.calls < MaxCalls
    /\ rewrite' = [rewrite EXCEPT
           !.before = rewrite.lines,
           !.lines = update_m3u8_for_preview(rewrite.lines, rewrite.downloaded_files),
           !.calls = @ + 1]
    /\ UNCHANGED <<helper, monitor, tmp_dir, at_exit, remote_m3u8, cfg, fs, clock,
                   tasks, cleaners, ui, current_cache_dir, download_worker, player>>

(***************************************************************************)
(* One materialization: a worker started on an existing, empty local       *)
(* directory.                                                              *)
(***************************************************************************)
InitOne ==
    /\ cfg \in [preview_duration : 0..MaxLimit, multi_thread_download : BOOLEAN,
                max_cache_dirs : {MaxCap}, auto_clean_cache : {TRUE},
                cleanup_on_exit : {TRUE}]
    /\ fs = [k \in CacheIds |-> IF k = 1 THEN FreshDir(1) ELSE NoDir]
    /\ clock = 2
    /\ tasks = [t \in TaskIds |->
                   IF t = 1
                   THEN NewTask(LocalHlsDir(1), cfg.preview_duration,
                                cfg.multi_thread_download)
                   ELSE NoTask]
    /\ cleaners = [c \in CleanerIds |-> NoCleaner]
    /\ ui = Idle
    /\ current_cache_dir = LocalHlsDir(1)
    /\ download_worker = 1
    /\ player = NoMedia
    /\ tmp_dir = NoEntries
    /\ at_exit = NotExited
    /\ rewrite = NoRewrite
    /\ helper = NoHelper
    /\ monitor = NoMonitor

InitMat ==
    /\ remote_m3u8 \in Playlists
    /\ InitOne

InitPool ==
    /\ remote_m3u8 = Uniform(PoolCap + 1)
    /\ InitOne

NextMat == \E t \in TaskIds : TaskStep(t)

SpecMat == InitMat /\ [][NextMat]_vars

\* the worker thread and the pool threads are scheduled, and every FTP
\* operation returns (the connections have a timeout)
\* the playlists of up to MaxFairItems items
MaxFairItems == 2
InitMatFair ==
    /\ remote_m3u8 \in UNION {{Render(items, 1) : items \in [1..n -> Items]} :
                                n \in 0..MaxFairItems}
    /\ InitOne
SpecMatFair == InitMatFair /\ [][NextMat]_vars /\ WF_vars(NextMat)

SpecPool == InitPool /\ [][NextMat]_vars

(***************************************************************************)
(* The application.  MainWindow.__init__ has started the startup eviction  *)
(* worker; the temp root holds the cache directories an earlier run left,  *)
(* oldest first.  Every remote HLS directory holds a playlist of one       *)
(* segment.                                                                *)
(***************************************************************************)
InitApp ==
    /\ remote_m3u8 = Uniform(1)
    /\ \E old \in 0..MaxOldDirs :
          /\ fs = [k \in CacheIds |->
                      IF k > NumPaths /\ k - NumPaths <= old
                      THEN FreshDir(k - NumPaths) ELSE NoDir]
          /\ clock = old + 1
    /\ tasks = [t \in TaskIds |-> NoTask]
    /\ ui = Idle
    /\ current_cache_dir = None
    /\ download_worker = 0
    /\ player = NoMedia
    /\ tmp_dir = NoEntries
    /\ at_exit = NotExited
    /\ rewrite = NoRewrite
    /\ helper = NoHelper
    /\ monitor = NoMonitor

\* the steps of the UI thread
NextWindow ==
    \/ \E path \in HlsPaths : SelectBegin(path)
    \/ SelectEnd
    \/ \E t \in TaskIds : on_download_finished(t)

\* the steps of the eviction workers
NextCleanup ==
    \/ \E c \in CleanerIds : CleanupScan(c)
    \/ \E c \in CleanerIds : CleanupDelete(c)

(***************************************************************************)
(* Selections with cache eviction on and sequential downloads              *)
(* (multi_thread_download false: no step of the pooled strategy is         *)
(* enabled).                                                               *)
(***************************************************************************)
InitEvict ==
    /\ cfg \in [preview_duration : {0}, multi_thread_download : {FALSE},
                max_cache_dirs : 1..MaxCap, auto_clean_cache : {TRUE},
                cleanup_on_exit : {TRUE}]
    /\ cleaners = [c \in CleanerIds |->
                      IF c = 0
                      THEN [NewCleaner(cfg.max_cache_dirs, None)
                               EXCEPT !.pc = "done", !.emitted = <<0>>]
                      ELSE NoCleaner]
    /\ InitApp

NextEvict ==
    \/ NextWindow
    \/ NextCleanup
    \/ \E t \in TaskIds : TaskStepCommon(t) \/ RunSequential(t)

SpecEvict == InitEvict /\ [][NextEvict]_vars

(***************************************************************************)
(* Selections with pooled downloads and automatic eviction off             *)
(* (auto_clean_cache false: on_ftp_selection starts no eviction worker;    *)
(* the startup worker has finished).                                       *)
(***************************************************************************)
InitSupersede ==
    /\ cfg \in [preview_duration : {0}, multi_thread_download : {TRUE},
                max_cache_dirs : {MaxCap}, auto_clean_cache : {FALSE},
                cleanup_on_exit : {TRUE}]
    /\ cleaners = [c \in CleanerIds |->
                      IF c = 0
                      THEN [NewCleaner(cfg.max_cache_dirs, None)
                               EXCEPT !.pc = "done", !.emitted = <<0>>]
                      ELSE NoCleaner]
    /\ InitApp

NextSupersede ==
    \/ NextWindow
    \/ \E t \in TaskIds : TaskStepCommon(t) \/ TaskStepPooled(t)

SpecSupersede == InitSupersede /\ [][NextSupersede]_vars

(***************************************************************************)
(* One materialization next to the eviction worker that the same selection *)
(* started: the state after on_ftp_selection for path 1, whose cache       *)
(* directory is new or is left from an earlier selection of the same path  *)
(* (then the oldest directory), with the current cache directory of before *)
(* the selection handed to the eviction worker.                            *)
(***************************************************************************)
InitMatEvict ==
    /\ remote_m3u8 = Uniform(2)
    /\ cfg \in [preview_duration : {0}, multi_thread_download : BOOLEAN,
                max_cache_dirs : 1..MaxCap, auto_clean_cache : {TRUE},
                cleanup_on_exit : {TRUE}]
    /\ \E old \in 0..MaxOldDirs, reused \in BOOLEAN :
          /\ fs = [k \in CacheIds |->
                      IF k = 1 THEN FreshDir(IF reused THEN 1 ELSE old + 1)
                      ELSE IF k > NumPaths /\ k - NumPaths <= old
                      THEN FreshDir(k - NumPaths + (IF reused THEN 1 ELSE 0))
                      ELSE NoDir]
          /\ clock = old + 2
          /\ \E active \in {None} \cup (IF reused THEN {LocalHlsDir(1)} ELSE {}) :
                cleaners = [c \in CleanerIds |->
                               IF c = 0
                               THEN [NewCleaner(cfg.max_cache_dirs, None)
                                        EXCEPT !.pc = "done", !.emitted = <<0>>]
                               ELSE IF c = 1
                               THEN NewCleaner(cfg.max_cache_dirs, active)
                               ELSE NoCleaner]
    /\ tasks = [t \in TaskIds |->
                   IF t = 1
                   THEN NewTask(LocalHlsDir(1), cfg.preview_duration,
                                cfg.multi_thread_download)
                   ELSE NoTask]
    /\ ui = Idle
    /\ current_cache_dir = LocalHlsDir(1)
    /\ download_worker = 1
    /\ player = NoMedia
    /\ tmp_dir = NoEntries
    /\ at_exit = NotExited
    /\ rewrite = NoRewrite
    /\ helper = NoHelper
    /\ monitor = NoMonitor

NextMatEvict ==
    \/ \E t \in TaskIds : TaskStep(t)
    \/ NextCleanup

SpecMatEvict == InitMatEvict /\ [][NextMatEvict]_vars

(***************************************************************************)
(* The FTP side alone: nothing is selected, no worker of the cache runs.   *)
(***************************************************************************)
InitQuiet ==
    /\ remote_m3u8 = Uniform(1)
    /\ cfg = [preview_duration |-> 0, multi_thread_download |-> FALSE,
              max_cache_dirs |-> MaxCap, auto_clean_cache |-> FALSE,
              cleanup_on_exit |-> TRUE]
    /\ fs = [k \in CacheIds |-> NoDir]
    /\ clock = 1
    /\ tasks = [t \in TaskIds |-> NoTask]
    /\ cleaners = [c \in CleanerIds |-> NoCleaner]
    /\ ui = Idle
    /\ current_cache_dir = None
    /\ download_worker = 0
    /\ player = NoMedia

\* an FtpHelper after __init__
InitFtp ==
    /\ InitQuiet
    /\ tmp_dir = NoEntries
    /\ at_exit = NotExited
    /\ rewrite = NoRewrite
    /\ helper = NoHelper
    /\ monitor = NoMonitor

NextFtp ==
    \/ HelperConnect
    \/ HelperDisconnect
    \/ HelperListDir
    \/ HelperExists
    \/ HelperDownload
    \/ HelperUpload
    \/ SessionLost

SpecFtp == InitFtp /\ [][NextFtp]_vars

\* MainWindow.__init__ (lines 1498-1516): timers stopped, not connected,
\* connect_ftp due in 500 ms; the configuration may lack the host
InitMonitor ==
    /\ InitQuiet
    /\ tmp_dir = NoEntries
    /\ at_exit = NotExited
    /\ rewrite = NoRewrite
    /\ helper = NoHelper
    /\ \E host \in BOOLEAN :
          monitor = [NoMonitor EXCEPT !.host = host, !.shots = 1]

NextMonitor ==
    \/ ShotFires
    \/ RetryTimeout
    \/ CountdownTimeout
    \/ WorkerConnected
    \/ WorkerFailed
    \/ SettingsAccepted

SpecMonitor == InitMonitor /\ [][NextMonitor]_vars

\* a started timer fires and a connection attempt ends (connect has a
\* timeout of 10 seconds); nobody has to open the settings
SpecMonitorFair ==
    /\ SpecMonitor
    /\ WF_vars(ShotFires)
    /\ WF_vars(RetryTimeout)
    /\ WF_vars(WorkerConnected \/ WorkerFailed)

(***************************************************************************)
(* The cache lifecycle alone: one eviction worker, started with a cap and  *)
(* the caller's current cache directory on a temp root that holds any set  *)
(* of cache directories with distinct modification times and any of the    *)
(* entries the cache does not own, and the handler of aboutToQuit.  Nothing*)
(* is selected, so no directory is created.                                *)
(***************************************************************************)
InitPass ==
    /\ remote_m3u8 = Uniform(1)
    /\ cfg \in [preview_duration : {0}, multi_thread_download : {FALSE},
                max_cache_dirs : 1..MaxCap, auto_clean_cache : {TRUE},
                cleanup_on_exit : BOOLEAN]
    /\ fs \in {f \in [CacheIds -> {NoDir} \cup {FreshDir(t) : t \in CacheIds}] :
                 \A a, b \in CacheIds :
                    a # b /\ f[a].exists /\ f[b].exists => f[a].mtime # f[b].mtime}
    /\ clock = Cardinality(CacheIds) + 1
    /\ tmp_dir \in [OtherIds -> {NoEntry, [exists |-> TRUE, mtime |-> 0]}]
    /\ current_cache_dir \in {None} \cup {LocalHlsDir(k) : k \in CacheIds}
    /\ cleaners = [c \in CleanerIds |->
                      IF c = 0
                      THEN NewCleaner(cfg.max_cache_dirs, current_cache_dir)
                      ELSE NoCleaner]
    /\ tasks = [t \in TaskIds |-> NoTask]
    /\ ui = Idle
    /\ download_worker = 0
    /\ player = NoMedia
    /\ at_exit = NotExited
    /\ rewrite = NoRewrite
    /\ helper = NoHelper
    /\ monitor = NoMonitor

NextPass ==
    \/ NextCleanup
    \/ cleanup_on_exit

SpecPass == InitPass /\ [][NextPass]_vars

(***************************************************************************)
(* The manifest rewrite alone: a playlist file of any lines and any list   *)
(* of downloaded file names; _update_m3u8_for_preview is applied to the    *)
(* file, and again to what it wrote.                                       *)
(***************************************************************************)
InitRewrite ==
    /\ InitQuiet
    /\ tmp_dir = NoEntries
    /\ at_exit = NotExited
    /\ helper = NoHelper
    /\ monitor = NoMonitor
    /\ \E text \in Texts, downloaded_files \in Retained :
          rewrite = [NoRewrite EXCEPT !.text = text, !.lines = text,
                                      !.downloaded_files = downloaded_files]

SpecRewrite == InitRewrite /\ [][UpdateM3u8]_vars

(***************************************************************************)
(* Vocabulary of the properties.                                           *)
(***************************************************************************)
Min(a, b) == IF a < b THEN a ELSE b

RECURSIVE Ascending(_)
Ascending(S) ==
    IF S = {} THEN <<>>
    ELSE LET m == CHOOSE x \in S : \A y \in S : x <= y
         IN <<m>> \o Ascending(S \ {m})

RECURSIVE SetToSeq(_)
SetToSeq(S) ==
    IF S = {} THEN <<>>
    ELSE LET x == CHOOSE y \in S : TRUE
         IN <<x>> \o SetToSeq(S \ {x})

\* a is a subsequence of b: the elements of a, in a's order, occur in b
RECURSIVE IsSubseq(_, _)
IsSubseq(a, b) ==
    IF a = <<>> THEN TRUE
    ELSE IF b = <<>> THEN FALSE
    ELSE IF Head(a) = Head(b) THEN IsSubseq(Tail(a), Tail(b))
    ELSE IsSubseq(a, Tail(b))

\* the places of a playlist's segments: a duration marker with a duration
\* that parses, directly followed by a file name line
SegmentAt(lines, i) ==
    /\ i + 1 <= Len(lines)
    /\ lines[i].k = "extinf" /\ lines[i].ok
    /\ lines[i + 1].k = "name"
\* the place of a file name line that follows a duration marker
PairedNameAt(lines, i) ==
    /\ i > 1 /\ i <= Len(lines)
    /\ lines[i].k = "name" /\ lines[i - 1].k = "extinf"

SegmentRefs(lines) ==
    LET at == Ascending({i \in 1..Len(lines) : SegmentAt(lines, i)})
    IN [j \in 1..Len(at) |-> [d |-> lines[at[j]].d, f |-> lines[at[j] + 1].f]]

RECURSIVE SumDur(_, _)
SumDur(segs, n) == IF n = 0 THEN 0 ELSE segs[n].d + SumDur(segs, n - 1)

\* the file names a playlist text references, in order, and as a set
NameSeq(lines) ==
    LET at == Ascending({i \in 1..Len(lines) : lines[i].k = "name"})
    IN [j \in 1..Len(at) |-> lines[at[j]].f]
Referenced(lines) == {lines[i].f : i \in {j \in 1..Len(lines) : lines[j].k = "name"}}

\* the lines that are neither a duration marker nor the file name line of a
\* segment, in order
OtherLines(lines) ==
    LET at == Ascending({i \in 1..Len(lines) :
                  lines[i].k # "extinf" /\ ~PairedNameAt(lines, i)})
    IN [j \in 1..Len(at) |-> lines[at[j]]]
\* the (duration marker, file name) pairs of the segments named in S, in order
PairsIn(lines, S) ==
    LET at == Ascending({i \in 1..Len(lines) :
                  PairedNameAt(lines, i + 1) /\ lines[i + 1].f \in S})
    IN [j \in 1..Len(at) |-> <<lines[at[j]], lines[at[j] + 1]>>]

LocalLines(r) == fs[r.local_dir[1]].m3u8.lines
PastFetchDone(r) == r.pc = "done" /\ r.past_fetch

(***************************************************************************)
(* C2.  In preview mode the target list is the manifest name followed by   *)
(* the longest prefix of the playlist's segments whose cumulative duration *)
(* is at most the ceiling: a prefix in original order, total <= ceiling,   *)
(* and either every segment or the next one would exceed the ceiling.      *)
(***************************************************************************)
PreviewSelectsLongestPrefix ==
    \A t \in TaskIds :
        tasks[t].past_fetch /\ tasks[t].preview_duration > 0 =>
            LET C == tasks[t].preview_duration
                segs == SegmentRefs(remote_m3u8)
                sel == Tail(tasks[t].files_to_download)
                n == Len(sel)
            IN /\ Head(tasks[t].files_to_download) = m3u8_name
               /\ n <= Len(segs)
               /\ \A j \in 1..n : sel[j] = segs[j].f
               /\ SumDur(segs, n) <= C
               /\ n = Len(segs) \/ SumDur(segs, n + 1) > C

\* a preview that stopped at a segment while a later, shorter segment would
\* still have fitted under the ceiling
PreviewStopsBeforeShortSegment ==
    \E t \in TaskIds :
        /\ tasks[t].past_fetch /\ tasks[t].preview_duration > 0
        /\ LET segs == SegmentRefs(remote_m3u8)
               n == Len(tasks[t].files_to_download) - 1
           IN /\ n >= 1
              /\ \E j \in (n + 2)..Len(segs) :
                    SumDur(segs, n) + segs[j].d <= tasks[t].preview_duration

(***************************************************************************)
(* C3.  After a run that got past the manifest fetch, the file names the   *)
(* local manifest references are exactly the fetched segments.             *)
(***************************************************************************)
ManifestReferencesExactlyFetched ==
    \A t \in TaskIds :
        PastFetchDone(tasks[t]) /\ ManifestExists(tasks[t].local_dir) =>
            Referenced(LocalLines(tasks[t])) = tasks[t].fetched

(***************************************************************************)
(* C4.  For every retained set S the rewrite outputs every line that is    *)
(* neither a duration marker nor a segment's file name line, unchanged and *)
(* in order, and a marker/file name pair exactly for the segments in S.    *)
(***************************************************************************)
RewriteKeepsEveryOtherLine ==
    \A S \in SUBSET Referenced(remote_m3u8) :
        LET out == update_m3u8_for_preview(remote_m3u8, SetToSeq(S))
        IN /\ OtherLines(out) = OtherLines(remote_m3u8)
           /\ PairsIn(out, Referenced(out)) = PairsIn(remote_m3u8, S)

(***************************************************************************)
(* C6.  A run that ends at the connect or at the manifest fetch emits      *)
(* finished(local_dir, 0, False) and has made no existence check, begun no *)
(* transfer, started no pool worker and not rewritten the manifest.        *)
(***************************************************************************)
FailFastDoesNothingElse ==
    \A t \in TaskIds :
        tasks[t].pc = "done" /\ ~tasks[t].past_fetch =>
            /\ tasks[t].event = Finished(tasks[t].local_dir, 0, FALSE)
            /\ tasks[t].checked = <<>>
            /\ tasks[t].xfer = {}
            /\ tasks[t].fut = <<>> /\ tasks[t].conns = {}
            /\ tasks[t].downloaded = 0
            /\ ~tasks[t].rewritten

\* a run ended by a manifest fetch that failed after the local file was opened
FetchFailedAfterOpen ==
    \E t \in TaskIds :
        /\ tasks[t].pc = "done" /\ ~tasks[t].past_fetch
        /\ ManifestExists(tasks[t].local_dir)

(***************************************************************************)
(* C7.  A file missing on the remote is never transferred and is recorded  *)
(* as skipped, not as failed: it is not in the failure list and not in the *)
(* failure count.                                                          *)
(***************************************************************************)
SkippedIsNotFailed ==
    \A t \in TaskIds :
        PastFetchDone(tasks[t]) =>
            /\ \A name \in tasks[t].skipped :
                  /\ \A c \in 0..(PoolCap + 1) : <<name, c>> \notin tasks[t].xfer
                  /\ name \notin Range(tasks[t].failed_files)
            /\ tasks[t].warned =
                  Cardinality(Range(tasks[t].failed_files) \ tasks[t].skipped)

(***************************************************************************)
(* C8.  In a pooled transfer the open pool connections never number more   *)
(* than min(5, files that passed the existence check); each is the         *)
(* connection of one running worker, none is the primary connection, no    *)
(* transfer of the pool goes over the primary connection or over the       *)
(* connection of another file, and a finished file's connection is closed. *)
(***************************************************************************)
PoolConnectionsBounded ==
    \A t \in TaskIds :
        LET r == tasks[t]
        IN /\ Cardinality(r.conns) <= Min(PoolCap, Len(r.valid_files))
           /\ 0 \notin r.conns
           /\ r.conns = Running(r)
           /\ r.use_multi_thread =>
                 \A x \in r.xfer :
                    /\ x[2] # 0
                    /\ \A y \in r.xfer : x[2] = y[2] => x = y

\* five pool connections are open and a sixth file waits for a thread
PoolFull ==
    \E t \in TaskIds :
        /\ Cardinality(tasks[t].conns) = PoolCap
        /\ Queued(tasks[t]) # {}

(***************************************************************************)
(* C9.  Whatever the completion order of the pooled transfers, the file    *)
(* names of the rewritten manifest are in the order of the original.       *)
(***************************************************************************)
RewriteKeepsSegmentOrder ==
    \A t \in TaskIds :
        PastFetchDone(tasks[t]) /\ ManifestExists(tasks[t].local_dir) =>
            IsSubseq(NameSeq(LocalLines(tasks[t])), NameSeq(remote_m3u8))

\* a pooled run that collected two files in the reverse of manifest order
\* and rewrote the manifest
CollectedOutOfOrder ==
    \E t \in TaskIds :
        /\ PastFetchDone(tasks[t]) /\ tasks[t].use_multi_thread /\ tasks[t].rewritten
        /\ \E a, b \in 1..Len(tasks[t].downloaded_ts_files) :
              /\ a < b
              /\ tasks[t].downloaded_ts_files[a].stem > tasks[t].downloaded_ts_files[b].stem

(***************************************************************************)
(* C1.  An eviction pass never removes the active cache directory its      *)
(* caller passed in: no directory it removes is that directory or holds    *)
(* it.                                                                     *)
(***************************************************************************)
EvictionKeepsActiveDir ==
    \A c \in CleanerIds :
        cleaners[c].current_cache_dir # None =>
            \A k \in cleaners[c].removed : cleaners[c].current_cache_dir[1] # k

(***************************************************************************)
(* C5 as stated.  When a run ends, its finished signal reports success     *)
(* exactly if the local manifest file exists on disk.                      *)
(***************************************************************************)
ManifestExistsNext(local_dir) ==
    fs'[local_dir[1]].exists /\ fs'[local_dir[1]].m3u8.exists
Ends(t) == tasks[t].pc # "done" /\ tasks'[t].pc = "done"

SuccessIffManifestExists ==
    [][\A t \in TaskIds :
          Ends(t) =>
              (tasks'[t].event[1].success <=> ManifestExistsNext(tasks[t].local_dir))]_vars

(***************************************************************************)
(* C5 as amended.  A run that got past the manifest fetch reports success  *)
(* exactly if the local manifest file exists on disk when it ends, with    *)
(* the failed and missing files reported as the warning count only; a run  *)
(* that ends at the connect or at the manifest fetch reports failure.      *)
(***************************************************************************)
SuccessIffManifestExistsPastFetch ==
    [][\A t \in TaskIds :
          Ends(t) =>
              IF tasks'[t].past_fetch
              THEN /\ tasks'[t].event[1].success
                          <=> ManifestExistsNext(tasks[t].local_dir)
                   /\ tasks'[t].warned = Len(tasks'[t].failed_files)
              ELSE ~tasks'[t].event[1].success]_vars

\* a run in which one segment was fetched and one failed, reported successful
PartialFailureReportedSuccessful ==
    \E t \in TaskIds :
        /\ PastFetchDone(tasks[t])
        /\ tasks[t].fetched # {} /\ tasks[t].failed_files # <<>>
        /\ tasks[t].warned >= 1
        /\ tasks[t].event[1].success

\* a run past the manifest fetch whose manifest was gone when it ended
ManifestGoneAtEnd ==
    \E t \in TaskIds :
        PastFetchDone(tasks[t]) /\ ~tasks[t].event[1].success

(***************************************************************************)
(* C10.  Once a selection has superseded a task and started the next one,  *)
(* the superseded task's pool is torn down: it holds no open pool          *)
(* connection, and pool workers of two tasks never transfer at the same    *)
(* time.                                                                   *)
(***************************************************************************)
SupersededPoolIsTornDown ==
    /\ \A t \in TaskIds :
          tasks[t].superseded /\ (\E u \in TaskIds : u > t /\ tasks[u].pc # "none") =>
              tasks[t].conns = {}
    /\ \A t, u \in TaskIds :
          t # u => ~(tasks[t].conns # {} /\ tasks[u].conns # {})

(***************************************************************************)
(* Vocabulary of the FtpHelper properties.                                 *)
(***************************************************************************)
Attempted(cmd) == \E i \in DOMAIN helper.log : helper.log[i].cmd = cmd
Failed(cmd) ==
    \E i \in DOMAIN helper.log : helper.log[i].cmd = cmd /\ ~helper.log[i].ok
Succeeded(cmd) ==
    \E i \in DOMAIN helper.log : helper.log[i].cmd = cmd /\ helper.log[i].ok
\* the operation changed into the directory it works in
Entered ==
    \E i \in DOMAIN helper.log : helper.log[i].role = "enter" /\ helper.log[i].ok
WdBefore(i) == IF i = 1 THEN helper.at_call ELSE helper.log[i - 1].wd

(***************************************************************************)
(* C11.  After download or upload has returned, with success or failure,   *)
(* the working directory of the (live) session is the one of the call.     *)
(***************************************************************************)
TransferRestoresWorkingDir ==
    helper.op \in {"download", "upload"} /\ helper.session =>
        helper.wd = helper.at_call

(***************************************************************************)
(* C12.  After list_dir or exists has returned, whichever listing was      *)
(* used and whichever listing command or probe failed, the working         *)
(* directory of the session is the one of the call, and every probe that   *)
(* changed into a name is followed at once by the change back to the       *)
(* listed directory.                                                       *)
(***************************************************************************)
ListingRestoresWorkingDir ==
    helper.op \in {"list_dir", "exists"} /\ helper.session =>
        /\ helper.wd = helper.at_call
        /\ \A i \in DOMAIN helper.log :
              helper.log[i].role = "probe" /\ helper.log[i].ok =>
                  /\ i < Len(helper.log)
                  /\ helper.log[i + 1].role = "probe_back"
                  /\ helper.log[i + 1].ok
                  /\ helper.log[i + 1].wd = WdBefore(i)

\* a name-only listing of another directory than the current one, in which
\* one probe changed into a subdirectory and one listing command failed
ProbedListingReturned ==
    /\ helper.op = "list_dir" /\ helper.session
    /\ Failed("LIST") /\ Succeeded("NLST")
    /\ \E i \in DOMAIN helper.log :
          /\ helper.log[i].role = "probe" /\ helper.log[i].ok
          /\ helper.log[i].wd # helper.at_call
          /\ WdBefore(i) # helper.at_call

(***************************************************************************)
(* C13.  A disconnected FtpHelper holds no live session; list_dir, exists, *)
(* download and upload on it return the failure value and issue no         *)
(* command; a failed connect leaves the FtpHelper disconnected, and a      *)
(* later connect can succeed.                                              *)
(***************************************************************************)
DisconnectedFailsQuietly ==
    /\ helper.ftp = "None" => ~helper.session
    /\ helper.ftp = "None"
          /\ helper.op \in {"list_dir", "exists", "download", "upload"} =>
              helper.log = <<>> /\ helper.result = NoResult
    /\ helper.op = "connect" /\ ~helper.result.ok => helper.ftp = "None"

\* an operation on the FtpHelper whose connect has failed
OperationAfterFailedConnect ==
    /\ helper.failed_before /\ helper.ftp = "None"
    /\ helper.op \in {"list_dir", "exists", "download", "upload"}

\* a connect that succeeded after a failed one
ConnectedOnRetry ==
    helper.failed_before /\ helper.op = "connect" /\ helper.result.ok

(***************************************************************************)
(* C14.  In list_dir the name-only listing is attempted exactly if the     *)
(* detailed listing command failed, and the machine-readable listing       *)
(* exactly if the name-only listing command failed too.                    *)
(***************************************************************************)
FallsBackOnEveryFailure ==
    helper.op = "list_dir" /\ helper.session /\ Entered =>
        /\ Attempted("NLST") <=> Failed("LIST")
        /\ Attempted("MLSD") <=> Failed("NLST")

(***************************************************************************)
(* C15.  At most one connection attempt of the monitor is in flight.       *)
(***************************************************************************)
OneAttemptInFlight == monitor.workers <= 1

(***************************************************************************)
(* C16.  Once connected, the monitor stays connected, starts no timer and  *)
(* no attempt until the settings are accepted, whatever results arrive.    *)
(***************************************************************************)
ConnectedUntilReconfigured ==
    [][monitor.ftp_connected /\ ~SettingsAccepted =>
          /\ monitor'.ftp_connected
          /\ ~monitor'.retry_active /\ ~monitor'.countdown_active
          /\ monitor'.workers <= monitor.workers]_vars

(***************************************************************************)
(* C17.  Accepting the settings with a host configured is eventually       *)
(* followed by a new connection attempt (unless the host is removed        *)
(* again).                                                                 *)
(***************************************************************************)
ReconfigurationReconnects ==
    (monitor.last = "settings" /\ monitor.host)
        ~> (monitor.last = "attempt" \/ ~monitor.host)

(***************************************************************************)
(* C18.  With a host configured, a failed attempt leaves the retry timer   *)
(* running with the delay of 5 seconds and the monitor not connected, and  *)
(* is eventually followed by another attempt, unless the monitor gets      *)
(* connected or the settings are accepted first.                           *)
(***************************************************************************)
FailureLeadsToRetry ==
    /\ [][WorkerFailed =>
             /\ ~monitor'.ftp_connected
             /\ monitor'.retry_active
             /\ monitor'.retry_interval = RetryDelay]_vars
    /\ (monitor.last = "failed" /\ monitor.host)
           ~> (monitor.last \in {"attempt", "connected", "settings"})

\* an attempt that the retry timer started
RetriedAfterFailure ==
    monitor.last = "attempt" /\ monitor.cause = "retry"

(***************************************************************************)
(* C19.  From the moment connect_ftp has found the configuration without   *)
(* a host until the settings are accepted, the monitor is not connected    *)
(* and the retry timer is not active.                                      *)
(***************************************************************************)
NoHostStaysDisconnected ==
    monitor.incomplete =>
        ~monitor.ftp_connected /\ ~monitor.retry_active

(***************************************************************************)
(* C20.  While ftp_connected holds neither the retry timer nor the         *)
(* countdown timer is active, and a successful attempt sets ftp_connected. *)
(***************************************************************************)
ConnectedHasNoTimers ==
    /\ monitor.ftp_connected =>
          ~monitor.retry_active /\ ~monitor.countdown_active
    /\ monitor.last = "connected" => monitor.ftp_connected

\* connected by an attempt of the retry timer: both timers were running
ConnectedAfterRetry ==
    monitor.last = "connected" /\ monitor.cause = "retry"

(***************************************************************************)
(* Vocabulary of the cache lifecycle.                                      *)
(***************************************************************************)
\* the directories an eviction worker has called rmtree on
RmtreeCalls(r) ==
    {r.to_delete[j] : j \in 1..(r.i - 1)}
        \ {k \in EntryIds : IsCurrent(k, r.current_cache_dir)}
\* the hls_cache_ directories now in the temp root
MatchingNow == {e \in EntryIds : Matches(e)}

(***************************************************************************)
(* C21.  Neither the eviction pass nor cleanup_on_exit touches an entry of *)
(* the temp root that is not a directory named hls_cache_*: no step        *)
(* changes such an entry.                                                  *)
(***************************************************************************)
ForeignEntriesUntouched == [][tmp_dir' = tmp_dir]_vars

\* the pass and the purge have both removed directories next to a plain
\* directory and a prefixed file
RemovedBesideForeignEntries ==
    /\ cleaners[0].removed # {}
    /\ at_exit.removed # {}
    /\ \A o \in OtherIds : tmp_dir[o].exists

\* what a pass found: the number of hls_cache_ directories, the directories
\* and the modification time it read for each
Scanned(r) == r.pc \in {"delete", "done"}
Count(r) == Len(r.cache_dirs)
Found(r) == {r.cache_dirs[j][2] : j \in 1..Len(r.cache_dirs)}
MtimeFound(r, k) == (CHOOSE p \in Range(r.cache_dirs) : p[2] = k)[1]
\* the n directories it found with the oldest modification times
OldestFound(r, n) ==
    {k \in Found(r) :
        Cardinality({x \in Found(r) : MtimeFound(r, x) < MtimeFound(r, k)}) < n}
\* the cache directory that is, or holds, the directory in use
ActiveFound(r) ==
    {k \in Found(r) : r.current_cache_dir \in {CacheDir(k), LocalHlsDir(k)}}
\* every rmtree call of the pass removed its directory
AllRemovalsSucceeded(r) == r.removed = RmtreeCalls(r)

(***************************************************************************)
(* C22.  A pass that finds no more hls_cache_ directories than max_dirs    *)
(* calls rmtree on nothing, removes nothing and emits finished(0).         *)
(***************************************************************************)
EvictionNoOpUnderCap ==
    \A c \in CleanerIds :
        LET r == cleaners[c]
        IN Scanned(r) /\ Count(r) <= r.max_dirs =>
              /\ r.pc = "done"
              /\ RmtreeCalls(r) = {}
              /\ r.removed = {}
              /\ r.emitted = <<0>>

\* a pass ended on a temp root holding exactly max_dirs cache directories
PassEndedAtCap ==
    /\ cleaners[0].pc = "done"
    /\ Count(cleaners[0]) = cleaners[0].max_dirs
    /\ ~at_exit.ran

(***************************************************************************)
(* C23.  A pass that finds more than max_dirs directories, is not          *)
(* overlapped by the purge and whose rmtree calls all succeed removes,     *)
(* when the active directory is not among the oldest count - max_dirs,     *)
(* exactly those; and every directory it removed is at least as old as     *)
(* every directory it retained other than the active one.                  *)
(***************************************************************************)
RemovedAreTheOldest(r) ==
    /\ ActiveFound(r) \cap OldestFound(r, Count(r) - r.max_dirs) = {}
          => r.removed = OldestFound(r, Count(r) - r.max_dirs)
    /\ \A d \in r.removed : \A x \in (Found(r) \ r.removed) \ ActiveFound(r) :
          MtimeFound(r, d) <= MtimeFound(r, x)

EvictsTheOldestIfRemovalsSucceed ==
    \A c \in CleanerIds :
        LET r == cleaners[c]
        IN r.pc = "done" /\ Count(r) > r.max_dirs /\ ~at_exit.ran
              /\ AllRemovalsSucceeded(r)
           => RemovedAreTheOldest(r)

\* the statement without the condition on the rmtree calls
EvictsTheOldest ==
    \A c \in CleanerIds :
        LET r == cleaners[c]
        IN r.pc = "done" /\ Count(r) > r.max_dirs /\ ~at_exit.ran
           => RemovedAreTheOldest(r)

\* a pass over the cap ended with every removal done and the active
\* directory among those it found but not among the oldest
EvictedBelowActive ==
    LET r == cleaners[0]
    IN /\ r.pc = "done" /\ Count(r) > r.max_dirs /\ ~at_exit.ran
       /\ AllRemovalsSucceeded(r) /\ r.removed # {}
       /\ ActiveFound(r) # {}
       /\ ActiveFound(r) \cap OldestFound(r, Count(r) - r.max_dirs) = {}

PurgeLeavesNothingWhenEnabled ==
    at_exit.ran /\ cfg.cleanup_on_exit /\ at_exit.removed = at_exit.attempted
        => MatchingNow = {}

\* the statement for every run of the handler
PurgeLeavesNothing ==
    at_exit.ran /\ at_exit.removed = at_exit.attempted => MatchingNow = {}

\* the purge removed several directories, the one in use among them
PurgedActiveToo ==
    /\ at_exit.ran /\ cfg.cleanup_on_exit
    /\ at_exit.removed = at_exit.attempted
    /\ Cardinality(at_exit.removed) >= 2
    /\ \E k \in at_exit.removed : current_cache_dir = LocalHlsDir(k)

(***************************************************************************)
(* C26.  With preview_duration zero or below, the target list of a         *)
(* materialization is the manifest name followed by the file name of every *)
(* segment of the playlist (every file name line that follows a duration   *)
(* marker), in order, whatever its extension.                              *)
(***************************************************************************)
PairedNames(lines) ==
    LET at == Ascending({i \in 1..Len(lines) : PairedNameAt(lines, i)})
    IN [j \in 1..Len(at) |-> lines[at[j]].f]

FullModeTargetsEverySegment ==
    \A t \in TaskIds :
        tasks[t].past_fetch /\ tasks[t].preview_duration <= 0 =>
            tasks[t].files_to_download = <<m3u8_name>> \o PairedNames(remote_m3u8)

(***************************************************************************)
(* C27.  A materialization that got its manifest and ends without having   *)
(* downloaded a single segment emits finished with success = False.        *)
(***************************************************************************)
NothingRetainedIsFailure ==
    \A t \in TaskIds :
        PastFetchDone(tasks[t]) /\ tasks[t].downloaded = 0 =>
            ~tasks[t].event[1].success

(***************************************************************************)
(* C28.  _update_m3u8_for_preview is idempotent: applied with the same     *)
(* downloaded_files to the file it wrote, it writes the same lines again.  *)
(***************************************************************************)
RewriteIsIdempotent == rewrite.calls >= 2 => rewrite.lines = rewrite.before

\* the first call dropped lines and kept others, and a second call was made
RewrittenTwice ==
    /\ rewrite.calls >= 2
    /\ rewrite.lines # <<>>
    /\ rewrite.lines # rewrite.text

(***************************************************************************)
(* C29.  Round trip: a well-formed playlist (directive lines, blank lines  *)
(* and segments, each a duration marker with a duration directly followed  *)
(* by its file name) rewritten with all its segment file names in          *)
(* downloaded_files has the same sequence of (duration, file name) pairs   *)
(* and the same sequence of directive lines as before.                     *)
(***************************************************************************)
WellFormed(lines) ==
    \A i \in 1..Len(lines) :
        /\ lines[i].k = "extinf" => lines[i].ok /\ SegmentAt(lines, i)
        /\ lines[i].k = "name" => PairedNameAt(lines, i)
Directives(lines) == SelectSeq(lines, LAMBDA l : l.k = "tag")

NameOnlyListing ==
    /\ helper.op = "list_dir"
    /\ Failed("LIST") /\ Succeeded("NLST")
    /\ \E i \in DOMAIN helper.log :
          helper.log[i].role = "probe_base" /\ helper.log[i].ok
\* the directory that was listed, its names, and the probes in order
ListedPath ==
    helper.log[CHOOSE i \in DOMAIN helper.log : helper.log[i].role = "enter"].wd
Probes == SelectSeq(helper.log, LAMBDA c : c.role = "probe")
\* the names of the server that end in a media or image extension
KnownExtension(name) == name \in {"1.ts"}
Unknown(names) == SelectSeq(names, LAMBDA n : ~KnownExtension(n))
ReturnedAs(name) ==
    (CHOOSE it \in Range(helper.result.items) : it[1] = name)[2]

ExtensionShortcutElseProbe ==
    NameOnlyListing =>
        LET names == Entries(ListedPath)
            items == helper.result.items
        IN /\ Len(items) = Len(names)
           /\ \A i \in 1..Len(names) :
                 /\ items[i][1] = names[i]
                 /\ KnownExtension(names[i]) => ~items[i][2]
           /\ Len(Probes) = Len(Unknown(names))
           /\ \A j \in 1..Len(Probes) :
                 /\ ReturnedAs(Unknown(names)[j]) <=> Probes[j].ok
                 /\ Probes[j].ok =>
                       Probes[j].wd = Append(ListedPath, Unknown(names)[j])

\* a name-only listing of a directory holding a segment file, a
\* subdirectory and a file without a known extension
NameOnlyListingOfMixedDir ==
    /\ NameOnlyListing
    /\ \E n \in Range(Entries(ListedPath)) : KnownExtension(n)
    /\ \E j \in 1..Len(Probes) : Probes[j].ok
    /\ \E j \in 1..Len(Probes) : ~Probes[j].ok

(***************************************************************************)
(* C31.  The UI thread runs no FtpHelper operation itself: every connect,  *)
(* listing, exists, download and upload is made by a worker thread (the    *)
(* walks of the cache directories are made by CacheCleanupWorker threads   *)
(* only).                                                                  *)
(***************************************************************************)
UiThreadMakesNoTransportCall == ui.calls = {}

(***************************************************************************)
(* C32.  No connection is used by two threads: in the pooled strategy      *)
(* every transfer runs on a connection other than the task's own self.ftp, *)
(* which the run thread alone uses for the manifest and the exists calls,  *)
(* and no pool connection carries the transfers of two futures.            *)
(***************************************************************************)
Pooled(r) == r.fut # <<>>
ConnectionsNotShared ==
    \A t \in TaskIds :
        LET r == tasks[t]
        IN /\ Pooled(r) => \A x \in r.xfer : x[2] # 0
           /\ \A x, y \in r.xfer : x[2] = y[2] /\ x[2] # 0 => x = y
           /\ ~Pooled(r) => \A x \in r.xfer : x[2] = 0

\* a pooled run that checked its files on self.ftp and transferred on
\* several pool connections
PooledOnSeveralConnections ==
    \E t \in TaskIds :
        /\ Pooled(tasks[t])
        /\ tasks[t].checked # <<>>
        /\ Cardinality({x[2] : x \in tasks[t].xfer}) >= 2

(***************************************************************************)
(* C33.  In the pooled strategy the exists calls for all the targeted      *)
(* files are made one after another by the run thread, and all of them     *)
(* have returned before a pool thread opens a connection or transfers a    *)
(* file; the files submitted to the pool are those found to exist.         *)
(***************************************************************************)
PoolActive(r) ==
    \/ r.conns # {}
    \/ \E j \in 1..Len(r.fut) : r.fut[j] # "queued"
    \/ r.use_multi_thread /\ r.xfer # {}
ChecksBeforePool ==
    \A t \in TaskIds :
        LET r == tasks[t]
        IN /\ r.pc = "mt_exists" => ~PoolActive(r) /\ r.fut = <<>>
           /\ Pooled(r) =>
                 /\ r.checked = FilterTs(r.files_to_download)
                 /\ Range(r.valid_files) = Range(r.checked) \ r.skipped
                 /\ \A x \in r.xfer : x[1] \in Range(r.valid_files)

\* a pool at work on the files left by checks that skipped a missing one
PoolAfterSkippingCheck ==
    \E t \in TaskIds :
        /\ Pooled(tasks[t])
        /\ tasks[t].skipped # {}
        /\ tasks[t].conns # {}
        /\ tasks[t].xfer # {}

(***************************************************************************)
(* C34.  A segment whose duration marker float() rejects is dropped: its   *)
(* file is not in the target list, and it is not in the manifest the run   *)
(* rewrote, whatever preview_duration is.                                  *)
(***************************************************************************)
MalformedNames(lines) ==
    {lines[i].f : i \in {j \in 1..Len(lines) :
                            PairedNameAt(lines, j) /\ ~lines[j - 1].ok}}
MalformedSegmentsDropped ==
    \A t \in TaskIds :
        LET r == tasks[t]
        IN r.past_fetch =>
              \A n \in MalformedNames(remote_m3u8) :
                  /\ n \notin Range(r.files_to_download)
                  /\ r.rewritten => n \notin Referenced(LocalLines(r))

(***************************************************************************)
(* C35.  A pass whose rmtree fails on one directory goes on to every other *)
(* directory of to_delete, ends with the finished signal, and the count it *)
(* emits is the number of directories it removed.                          *)
(***************************************************************************)
BestEffortCountsRemoved ==
    \A c \in CleanerIds :
        LET r == cleaners[c]
        IN r.pc = "done" /\ ~at_exit.ran =>
              /\ RmtreeCalls(r) =
                    Range(r.to_delete)
                       \ {k \in EntryIds : IsCurrent(k, r.current_cache_dir)}
              /\ r.emitted = <<Cardinality(r.removed)>>


(***************************************************************************)
(* C36.  The eviction pass that a selection launched never removes the     *)
(* cache directory into which the materialization started by that same     *)
(* selection writes, also when that directory was left from an earlier     *)
(* selection of the same path.  (The selection that starts task t starts   *)
(* eviction worker t.)                                                     *)
(***************************************************************************)
SelectionPassSparesItsOwnDir ==
    \A t \in TaskIds :
        tasks[t].pc # "none" => tasks[t].local_dir[1] \notin cleaners[t].removed


(***************************************************************************)
(* C37.  A completion event of a task that a later selection superseded    *)
(* is never acted upon: delivering it opens no media and leaves the        *)
(* current cache directory alone.                                          *)
(***************************************************************************)
SupersededCompletionIsIgnored ==
    [][\A t \in TaskIds :
          tasks[t].superseded /\ ~tasks[t].delivered /\ tasks'[t].delivered =>
              player' = player /\ current_cache_dir' = current_cache_dir]_vars


(***************************************************************************)
(* C38.  The monitor holds at most one open browse connection, and         *)
(* ftp_connected is true exactly when it holds one: every connection an    *)
(* attempt opened is the one MainWindow.ftp holds or has been              *)
(* disconnected, also when attempts overlap.                               *)
(***************************************************************************)
HoldsConnection == monitor.has_ftp /\ monitor.ftp_live
BrowseConnectionIsUnique ==
    /\ monitor.ftp_connected <=> HoldsConnection
    /\ ~monitor.orphaned


(***************************************************************************)
(* C39.  Every materialization run emits exactly one terminal event, and   *)
(* nothing of the run is reported after it: a started run eventually       *)
(* emits finished, never twice, and once it has, its record of checks,     *)
(* transfers, failures and warnings stays as it is.  The count of the      *)
(* event is the number of fetched segments plus one on a run that got      *)
(* past the manifest fetch and 0 on a fail-fast run.                       *)
(***************************************************************************)
Emitted(r) == r.event # <<>>
Reported(r) ==
    <<r.checked, r.xfer, r.fetched, r.skipped, r.failed_files, r.warned, r.event>>
ExpectedCount(r) == IF r.past_fetch THEN Cardinality(r.fetched) + 1 ELSE 0
OneTerminalEventLast ==
    /\ [](\A t \in TaskIds :
             /\ Len(tasks[t].event) <= 1
             /\ Emitted(tasks[t]) => tasks[t].event[1].count = ExpectedCount(tasks[t]))
    /\ [][\A t \in TaskIds :
             Emitted(tasks[t]) => Reported(tasks'[t]) = Reported(tasks[t])]_vars
    /\ \A t \in TaskIds : tasks[t].pc # "none" ~> Emitted(tasks[t])
\* a run that fetched a segment and reported a missing one has emitted
EmittedAfterFetchAndSkip ==
    \E t \in TaskIds :
        /\ Emitted(tasks[t])
        /\ tasks[t].fetched # {} /\ tasks[t].skipped # {}
        /\ tasks[t].event[1].count = Cardinality(tasks[t].fetched) + 1
\* a fail-fast run has emitted
EmittedFailFast ==
    \E t \in TaskIds :
        Emitted(tasks[t]) /\ ~tasks[t].past_fetch /\ tasks[t].event[1].count = 0


(***************************************************************************)
(* C40.  In both strategies every targeted segment has exactly one outcome *)
(* when the strategy has ended: each is fetched, skipped (reported         *)
(* missing) or failed, the three numbers sum to the number of targeted     *)
(* segments, and no file is both fetched and reported failed.  A file is   *)
(* fetched exactly if its transfer stored it, whatever became of the       *)
(* other files: a pool worker that could not connect leaves its file       *)
(* failed and nothing else.                                                *)
(***************************************************************************)
Targeted(r) == {r.files_to_download[j] : j \in 1..Len(r.files_to_download)} \ {m3u8_name}
ReportedFailed(r) == {r.failed_files[j] : j \in 1..Len(r.failed_files)}
FailedOutcome(r) == ReportedFailed(r) \ r.skipped
\* the files a transfer was started for
Transferred(r) == {x[1] : x \in r.xfer}
StrategyEnded(r) == r.past_fetch /\ r.pc \in {"finish", "done"}
=============================================================================
